---- MODULE Spec2Model ----
(***************************************************************************)
(* protozero: pbf_reader (field cursor over a borrowed byte range) and     *)
(* pbf_writer (appending encoder with nested submessages).                 *)
(*                                                                         *)
(* Machine integers that can exceed TLC's integer range (64-bit varint     *)
(* values, 32-bit tags and lengths) are bit vectors: the set of the        *)
(* positions 0..63 of their one bits, narrower types zero-extended. Buffer *)
(* positions and sizes are naturals.  Pointers are offsets into the        *)
(* memory block `mem` on a flat 64-bit address space, where pointer plus   *)
(* 32-bit length does not wrap.                                            *)
(***************************************************************************)
EXTENDS Integers, Sequences, FiniteSets, TLC

VARIABLES
    assertions,   \* build: TRUE iff protozero_assert is compiled in (no NDEBUG)
    mem,          \* the bytes of the memory block the reader borrows from
    rd,           \* the pbf_reader object: m_data, m_end, m_wire_type, m_tag
    rd_last,      \* the last reader call: operation, type, outcome, value returned
    buffer,       \* the std::string the writers append to
    writers,      \* the pbf_writer objects, writers[1] is the top-level writer
    wr_last,      \* the last writer call: operation, writer, outcome, number of calls so far
    msg,          \* scripted run: the fields of the complete message
    got,          \* scripted run: the values the loop has read so far
    pc,           \* scripted run: position of the loop
    arg           \* scripted run: the argument its calls are made with

vars == <<assertions, mem, rd, rd_last, buffer, writers, wr_last, msg, got, pc, arg>>

----------------------------------------------------------------------------
\* Bit vectors: a machine integer is the set of the positions of its one bits

BitIdx == 0..63

Pow2Table ==
    << 1, 2, 4, 8, 16, 32, 64, 128, 256, 512, 1024, 2048, 4096, 8192, 16384, 32768,
       65536, 131072, 262144, 524288, 1048576, 2097152, 4194304, 8388608, 16777216,
       33554432, 67108864, 134217728, 268435456, 536870912, 1073741824 >>

\* 2^i for i <= 30
Pow2(i) == Pow2Table[i + 1]

\* the bit vector of a natural n < 2^31
BitVec(n) == {i \in 0..30 : (n \div Pow2(i)) % 2 = 1}

Zero64 == {}

Ones64 == BitIdx

IsZero(b) == b = {}

Shr(b, k) == {i - k : i \in {j \in b : j >= k}}

Shl(b, k) == {i + k : i \in {j \in b : j + k <= 63}}

BitOr(a, b) == a \cup b

BitXor(a, b) == (a \ b) \cup (b \ a)

\* conversion to a w-bit unsigned type: uint32_t(x), pbf_length_type(x)
Trunc(b, w) == {i \in b : i < w}

\* conversion of a w-bit signed value to int64_t (sign extension)
SignExt(b, w) == IF (w - 1) \in b THEN b \cup (w..63) ELSE b

RECURSIVE BitSum(_)
\* the natural whose one bits are at the positions S, all below 31
BitSum(S) ==
    IF S = {} THEN 0
    ELSE LET i == CHOOSE x \in S : TRUE IN Pow2(i) + BitSum(S \ {i})

\* the natural held in bits 0..k-1 of b, k <= 30
LowBits(b, k) == BitSum({i \in b : i < k})

\* byte number k (0 = least significant) of b
ByteOf(b, k) == LowBits(Shr(b, 8 * k), 8)

\* b < 2^k
Fits(b, k) == \A i \in b : i < k

\* the natural a bit vector below 2^30 holds; SatCap for anything larger, which no
\* buffer position of the model reaches
SatCap == Pow2(30)

SatNat(b) == IF Fits(b, 30) THEN LowBits(b, 30) ELSE SatCap

----------------------------------------------------------------------------
\* types.hpp

pbf_wire_type_varint == 0

pbf_wire_type_fixed64 == 1

pbf_wire_type_length_delimited == 2

pbf_wire_type_fixed32 == 5

pbf_wire_type_unknown == 99

sizeof_pbf_length_type == 4

VarintTypes == {"enum", "int32", "uint32", "int64", "uint64"}

SvarintTypes == {"sint32", "sint64"}

FixedTypes == {"fixed32", "sfixed32", "fixed64", "sfixed64"}

LengthDelimitedTypes == {"bytes", "string", "message"}

ScalarTypes == {"bool"} \cup VarintTypes \cup SvarintTypes \cup FixedTypes

\* T::tag, the dispatch tag of a logical type
type_tag(T) ==
    IF T = "bool" THEN "bool_tag"
    ELSE IF T \in VarintTypes THEN "varint_tag"
    ELSE IF T \in SvarintTypes THEN "svarint_tag"
    ELSE IF T \in FixedTypes THEN "fixed_tag"
    ELSE "length_delimited_tag"

\* sizeof(T::type)
type_size(T) ==
    IF T \in {"int64", "uint64", "sint64", "fixed64", "sfixed64"} THEN 8 ELSE 4

\* T::type is a signed integer type
type_signed(T) ==
    T \in {"bool", "enum", "int32", "int64", "sint32", "sint64", "sfixed32", "sfixed64"}

\* T::wire_type
type_wire_type(T) ==
    IF T \in {"fixed32", "sfixed32"} THEN pbf_wire_type_fixed32
    ELSE IF T \in {"fixed64", "sfixed64"} THEN pbf_wire_type_fixed64
    ELSE IF T \in LengthDelimitedTypes THEN pbf_wire_type_length_delimited
    ELSE pbf_wire_type_varint

\* the tag range both next() and add_field() assert, on a 32-bit tag
tag_in_range(tag) ==
    /\ Fits(tag, 29)
    /\ LET t == LowBits(tag, 29)
       IN  (t > 0 /\ t < 19000) \/ (t > 19999 /\ t <= Pow2(29) - 1)

----------------------------------------------------------------------------
\* varint.hpp

max_varint_length == 10

RECURSIVE decode_varint_impl(_, _, _, _)
\* k bytes read so far, acc the value accumulated from them
decode_varint_impl(p, end, k, acc) ==
    IF k = max_varint_length THEN [out |-> "varint_too_long", val |-> Zero64, pos |-> p]
    ELSE IF p + k >= end THEN [out |-> "end_of_buffer", val |-> Zero64, pos |-> p]
    ELSE LET b == mem[p + k + 1]
             acc2 == BitOr(acc, Shl(BitVec(b % 128), 7 * k))
         IN  IF b < 128 THEN [out |-> "ok", val |-> acc2, pos |-> p + k + 1]
             ELSE decode_varint_impl(p, end, k + 1, acc2)

\* decode_varint(&data, end): outcome, value, and the position after the varint
\* (the position it was called with when it throws)
decode_varint(p, end) == decode_varint_impl(p, end, 0, Zero64)

RECURSIVE write_varint(_)
\* the bytes write_varint emits for a 64-bit value
write_varint(value) ==
    IF IsZero(Shr(value, 7)) THEN <<LowBits(value, 7)>>
    ELSE <<LowBits(value, 7) + 128>> \o write_varint(Shr(value, 7))

\* (value << 1) ^ (value >> 63), the shift arithmetic
\* the shift of the zigzag encoding without the sign fold
encode_shift_only(value) == Shl(value, 1)

encode_zigzag64(value) ==
    BitXor(Shl(value, 1), IF 63 \in value THEN Ones64 ELSE Zero64)

\* (value >> 1) ^ -(value & 1)
decode_zigzag64(value) ==
    BitXor(Shr(value, 1), IF 0 \in value THEN Ones64 ELSE Zero64)

----------------------------------------------------------------------------
\* pbf_reader

\* what a reader call gives back: the reader after it, how it ended ("ok", "true",
\* "false", an exception name, or "assert" for a failed protozero_assert), the
\* value returned, and for a view or range the window [vpos, vpos + vlen)
Res(r, out, val, vpos, vlen) ==
    [r |-> r, out |-> out, val |-> val, vpos |-> vpos, vlen |-> vlen]

Threw(r, out) == Res(r, out, Zero64, 0, 0)

pbf_reader(length) ==
    [m_data |-> 0, m_end |-> length,
     m_wire_type |-> pbf_wire_type_unknown, m_tag |-> Zero64]

\* *p: a byte of the block, or for p outside it whatever byte `oob` lies there
Deref(p, oob) == IF p < Len(mem) THEN mem[p + 1] ELSE oob

\* get_length over a decoder that moves the cursor while it reads
get_length_cursor_moved(r) ==
    LET d == decode_varint(r.m_data, r.m_end)
    IN  IF d.out = "varint_too_long"
        THEN Threw([r EXCEPT !.m_data = r.m_data + max_varint_length], d.out)
        ELSE IF d.out # "ok" THEN Threw([r EXCEPT !.m_data = r.m_end], d.out)
        ELSE Res([r EXCEPT !.m_data = d.pos], "ok", Trunc(d.val, 32), 0, 0)

get_length(r) ==
    LET d == decode_varint(r.m_data, r.m_end)
    IN  IF d.out # "ok" THEN Threw(r, d.out)
        ELSE Res([r EXCEPT !.m_data = d.pos], "ok", Trunc(d.val, 32), 0, 0)

skip_bytes_unchecked(r, len) ==
    Res([r EXCEPT !.m_data = r.m_data + SatNat(len),
                  !.m_tag = IF assertions THEN Zero64 ELSE r.m_tag],
        "ok", Zero64, 0, 0)

skip_bytes(r, len) ==
    IF r.m_data + SatNat(len) > r.m_end THEN Threw(r, "end_of_buffer")
    ELSE Res([r EXCEPT !.m_data = r.m_data + SatNat(len),
                       !.m_tag = IF assertions THEN Zero64 ELSE r.m_tag],
             "ok", Zero64, 0, 0)

\* get_len_and_skip whose window starts at the length varint
get_len_and_skip_from_length(r) ==
    LET l == get_length(r)
    IN  IF l.out # "ok" THEN l
        ELSE LET s == skip_bytes(l.r, l.val)
             IN  IF s.out # "ok" THEN s
                 ELSE Res(s.r, "ok", l.val, r.m_data, SatNat(l.val))

get_len_and_skip(r) ==
    LET l == get_length(r)
    IN  IF l.out # "ok" THEN l
        ELSE LET s == skip_bytes(l.r, l.val)
             IN  IF s.out # "ok" THEN s
                 ELSE Res(s.r, "ok", l.val, s.r.m_data - SatNat(l.val), SatNat(l.val))

\* a conversion that keeps all 64 bits whatever the result type
convert_wide(T, x) == x

\* R(x): conversion of a 64-bit value to the result type of T
convert(T, x) ==
    IF type_size(T) = 8 THEN x ELSE Trunc(x, 32)

RECURSIVE load_le(_, _)
\* the little-endian value of the size bytes at [p, p + size)
load_le(p, size) ==
    IF size = 0 THEN Zero64
    ELSE BitOr(BitVec(Deref(p, 0)), Shl(load_le(p + 1, size - 1), 8))

get_scalar(r, T, oob) ==
    CASE type_tag(T) = "varint_tag" ->
            LET d == decode_varint(r.m_data, r.m_end)
            IN  IF d.out # "ok" THEN Threw(r, d.out)
                ELSE Res([r EXCEPT !.m_data = d.pos], "ok", convert(T, d.val), 0, 0)
      [] type_tag(T) = "bool_tag" ->
            IF assertions /\ Deref(r.m_data, oob) >= 128 THEN Threw(r, "assert")
            ELSE LET s == skip_bytes(r, BitVec(1))
                 IN  IF s.out # "ok" THEN s
                     ELSE Res(s.r, "ok",
                              BitVec(IF Deref(s.r.m_data - 1, 0) # 0 THEN 1 ELSE 0), 0, 0)
      [] type_tag(T) = "svarint_tag" ->
            LET d == decode_varint(r.m_data, r.m_end)
            IN  IF d.out # "ok" THEN Threw(r, d.out)
                ELSE Res([r EXCEPT !.m_data = d.pos], "ok",
                         convert(T, decode_zigzag64(d.val)), 0, 0)
      [] type_tag(T) = "fixed_tag" ->
            LET s == skip_bytes(r, BitVec(type_size(T)))
            IN  IF s.out # "ok" THEN s
                ELSE Res(s.r, "ok", load_le(s.r.m_data - type_size(T), type_size(T)), 0, 0)
      [] type_tag(T) = "length_delimited_tag" ->
            get_len_and_skip(r)

get_impl_scalar(r, T, oob) ==
    IF assertions /\ r.m_wire_type # type_wire_type(T) THEN Threw(r, "assert")
    ELSE get_scalar(r, T, oob)

get_impl_packed(r) == get_len_and_skip(r)

\* get<T>() for a scalar or length-delimited T
get(r, T, oob) ==
    IF assertions /\ IsZero(r.m_tag) THEN Threw(r, "assert")
    ELSE get_impl_scalar(r, T, oob)

\* get<types::packed<T>>()
get_packed(r) ==
    IF assertions /\ IsZero(r.m_tag) THEN Threw(r, "assert")
    ELSE get_impl_packed(r)

\* next() with m_tag wide enough for every header
next_wide_tag(r) ==
    IF r.m_data = r.m_end THEN Threw(r, "false")
    ELSE LET d == decode_varint(r.m_data, r.m_end)
         IN  IF d.out # "ok" THEN Threw(r, d.out)
             ELSE LET r2 == [r EXCEPT !.m_data = d.pos, !.m_tag = Shr(d.val, 3),
                                      !.m_wire_type = LowBits(d.val, 3)]
                  IN  IF assertions /\ ~tag_in_range(r2.m_tag) THEN Threw(r2, "assert")
                      ELSE IF r2.m_wire_type \in
                                {pbf_wire_type_varint, pbf_wire_type_fixed64,
                                 pbf_wire_type_length_delimited, pbf_wire_type_fixed32}
                           THEN Threw(r2, "true")
                           ELSE Threw(r2, "unknown_wire_type")

\* next() that decodes a header without looking for the end first
next_no_end_check(r) ==
    IF r.m_data = r.m_end THEN Threw(r, decode_varint(r.m_data, r.m_end).out)
    ELSE next_wide_tag(r)

\* next() that decodes the header and leaves the cursor in front of it
next_keeps_cursor(r) ==
    IF r.m_data = r.m_end THEN Threw(r, "false")
    ELSE LET d == decode_varint(r.m_data, r.m_end)
         IN  IF d.out # "ok" THEN Threw(r, d.out)
             ELSE LET r1 == [r EXCEPT !.m_tag = Trunc(Shr(d.val, 3), 32)]
                      r2 == [r1 EXCEPT !.m_wire_type = LowBits(d.val, 3)]
                  IN  IF assertions /\ ~tag_in_range(r1.m_tag) THEN Threw(r1, "assert")
                      ELSE IF r2.m_wire_type \in
                                {pbf_wire_type_varint, pbf_wire_type_fixed64,
                                 pbf_wire_type_length_delimited, pbf_wire_type_fixed32}
                           THEN Threw(r2, "true")
                           ELSE Threw(r2, "unknown_wire_type")

next(r) ==
    IF r.m_data = r.m_end THEN Threw(r, "false")
    ELSE LET d == decode_varint(r.m_data, r.m_end)
         IN  IF d.out # "ok" THEN Threw(r, d.out)
             ELSE LET r1 == [r EXCEPT !.m_data = d.pos,
                                      !.m_tag = Trunc(Shr(d.val, 3), 32)]
                      r2 == [r1 EXCEPT !.m_wire_type = LowBits(d.val, 3)]
                  IN  IF assertions /\ ~tag_in_range(r1.m_tag) THEN Threw(r1, "assert")
                      ELSE IF r2.m_wire_type \in
                                {pbf_wire_type_varint, pbf_wire_type_fixed64,
                                 pbf_wire_type_length_delimited, pbf_wire_type_fixed32}
                           THEN Threw(r2, "true")
                           ELSE Threw(r2, "unknown_wire_type")

skip(r) ==
    IF assertions /\ IsZero(r.m_tag) THEN Threw(r, "assert")
    ELSE CASE r.m_wire_type = pbf_wire_type_varint ->
                LET g == get(r, "uint32", 0) IN Threw(g.r, g.out)
           [] r.m_wire_type = pbf_wire_type_fixed64 -> skip_bytes(r, BitVec(8))
           [] r.m_wire_type = pbf_wire_type_length_delimited ->
                LET l == get_length(r)
                IN  IF l.out # "ok" THEN l ELSE skip_bytes(l.r, l.val)
           [] r.m_wire_type = pbf_wire_type_fixed32 -> skip_bytes(r, BitVec(4))
           [] OTHER -> IF assertions THEN Threw(r, "assert") ELSE Threw(r, "ok")

RECURSIVE next_tag(_, _)
\* next(tag): while (next()) { if (m_tag == tag) return true; else skip(); }
next_tag(r, tag) ==
    LET n == next(r)
    IN  IF n.out # "true" THEN n
        ELSE IF n.r.m_tag = tag THEN n
        ELSE LET s == skip(n.r)
             IN  IF s.out # "ok" THEN s ELSE next_tag(s.r, tag)

----------------------------------------------------------------------------
\* Reader runs: a reader over an arbitrary block of bytes, called in any order

MaxTail == 1

\* the field headers a block starts with: tag 1 of every wire type, tag 2, the
\* unknown wire type 3, and tag 0
Heads == { <<8>>, <<9>>, <<10>>, <<13>>, <<16>>, <<11>>, <<0>> }

\* what follows: a one-byte value or length, a continuation byte, a two-byte
\* varint, a length with its payload, a value with a field of tag 2 after it,
\* and fixed-width payloads
Pieces ==
    { <<1>>, <<128>>, <<150, 1>>, <<1, 16, 1>>, <<1, 2, 3, 4, 5, 6, 7, 128>> }

RECURSIVE Tails(_)
Tails(n) ==
    IF n = 0 THEN {<<>>}
    ELSE LET B == Tails(n - 1) IN B \cup {b \o c : b \in B, c \in Pieces}

\* the blocks of bytes a reader is put on, well-formed or not
Blocks == {<<>>} \cup {h \o t : h \in Heads, t \in Tails(MaxTail)}

\* a byte that may lie behind the reader's range: high bit clear or set
OobBytes == {0, 128}

\* the bytes a read of *r.m_data by get<T>() may see: only get_bool reads it
\* unchecked, and only at the end of the block is it not a byte of the block
OobChoices(r, T) ==
    IF T = "bool" /\ r.m_data >= Len(mem) THEN OobBytes ELSE {0}

NoCall == [op |-> "init", T |-> "", out |-> "", val |-> Zero64, vpos |-> 0, vlen |-> 0]

Called(op, T, res) ==
    [op |-> op, T |-> T, out |-> res.out, val |-> res.val, vpos |-> res.vpos,
     vlen |-> res.vlen]

\* a failed assertion ends the process
Running == rd_last.out # "assert"

\* no writer call made yet
NoWrite == [op |-> "init", w |-> 0, out |-> "ok", n |-> 0, calls |-> 0]

WriterIdle ==
    /\ buffer = <<>>
    /\ writers = <<>>
    /\ wr_last = NoWrite

\* a run that takes no argument
NoArg == <<>>

TruncIdle ==
    /\ msg = <<>>
    /\ got = <<>>
    /\ pc = "idle"
    /\ arg = NoArg

ReaderInit ==
    /\ assertions \in BOOLEAN
    /\ mem \in Blocks
    /\ rd = pbf_reader(Len(mem))
    /\ rd_last = NoCall
    /\ WriterIdle
    /\ TruncIdle

ReaderFrame == UNCHANGED <<assertions, mem, buffer, writers, wr_last, msg, got, pc, arg>>

Next_ ==
    /\ Running
    /\ LET res == next(rd)
       IN  rd' = res.r /\ rd_last' = Called("next", "", res)
    /\ ReaderFrame

NextTag ==
    /\ Running
    /\ \E t \in {1, 2} :
         LET res == next_tag(rd, BitVec(t))
         IN  rd' = res.r /\ rd_last' = Called("next_tag", "", res)
    /\ ReaderFrame

Skip ==
    /\ Running
    /\ LET res == skip(rd)
       IN  rd' = res.r /\ rd_last' = Called("skip", "", res)
    /\ ReaderFrame

GetScalar ==
    /\ Running
    /\ \E T \in ScalarTypes : \E oob \in OobChoices(rd, T) :
         LET res == get(rd, T, oob)
         IN  rd' = res.r /\ rd_last' = Called("get", T, res)
    /\ ReaderFrame

\* get_view, get_data, get_message
GetView ==
    /\ Running
    /\ LET res == get(rd, "bytes", 0)
       IN  rd' = res.r /\ rd_last' = Called("get_view", "bytes", res)
    /\ ReaderFrame

GetPacked ==
    /\ Running
    /\ LET res == get_packed(rd)
       IN  rd' = res.r /\ rd_last' = Called("get_packed", "", res)
    /\ ReaderFrame

ReaderNext == Next_ \/ NextTag \/ Skip \/ GetScalar \/ GetView \/ GetPacked

ReaderSpec == ReaderInit /\ [][ReaderNext]_vars

\* the last call was a field advance that returned true: there is a current
\* field, and its tag is one a message may carry
HasCurrent ==
    /\ rd_last.op \in {"next", "next_tag"}
    /\ rd_last.out = "true"
    /\ tag_in_range(rd.m_tag)

\* the varint at the cursor of r has no terminating byte before m_end
VarintPastEnd(r) ==
    /\ r.m_end - r.m_data < max_varint_length
    /\ \A p \in r.m_data..(r.m_end - 1) : mem[p + 1] >= 128

\* the payload of a field of scalar type T at the cursor of r extends past m_end
PayloadPastEnd(r, T) ==
    IF T \in FixedTypes THEN r.m_data + type_size(T) > r.m_end
    ELSE VarintPastEnd(r)

\* C1: a typed scalar read of the current field whose payload would extend past
\* the end fails with end_of_buffer and leaves cursor, end, tag and wire type as
\* they were before the call.
C1_ScalarReadStrongGuarantee ==
    [][ ( /\ HasCurrent
          /\ rd_last'.op = "get"
          /\ rd.m_wire_type = type_wire_type(rd_last'.T)
          /\ PayloadPastEnd(rd, rd_last'.T) )
        => (rd_last'.out = "end_of_buffer" /\ rd' = rd) ]_vars

\* the decoded length of the length-delimited field at the cursor of r exceeds the
\* bytes that remain after the length varint
LengthPastEnd(r) ==
    LET d == decode_varint(r.m_data, r.m_end)
    IN  d.out = "ok" /\ SatNat(Trunc(d.val, 32)) > r.m_end - d.pos

\* C2: when the current field is length-delimited and its length exceeds the bytes
\* remaining after the length varint, get_view, get_data, get_message,
\* get_packed_<type> and skip() fail with end_of_buffer and leave the reader
\* unchanged, the cursor still at the first byte of the length varint.
C2_ViewReadStrongGuarantee ==
    [][ ( /\ HasCurrent
          /\ rd.m_wire_type = pbf_wire_type_length_delimited
          /\ rd_last'.op \in {"get_view", "get_packed", "skip"}
          /\ LengthPastEnd(rd) )
        => (rd_last'.out = "end_of_buffer" /\ rd' = rd) ]_vars

\* C3: a next() that fails (unknown_wire_type, or an error while decoding the
\* header varint) leaves cursor, tag and wire type as they were before the call.
C3_FailedNextUnchanged ==
    [][ ( /\ rd_last'.op = "next"
          /\ rd_last'.out \in {"unknown_wire_type", "end_of_buffer", "varint_too_long"} )
        => rd' = rd ]_vars

\* C4: cursor <= end in every reachable reader state, after any sequence of
\* next(), next(tag), skip() and typed reads, successful or failing.
C4_CursorWithinEnd == rd.m_data <= rd.m_end

\* a skip() that refused an oversize length with the cursor moved up to the end
C4_Witness ==
    /\ rd_last.op = "skip"
    /\ rd_last.out = "end_of_buffer"
    /\ rd.m_wire_type = pbf_wire_type_length_delimited
    /\ rd.m_data = rd.m_end
    /\ rd.m_data >= 2

----------------------------------------------------------------------------
\* Truncation runs: a reader over a proper prefix of a well-formed message, driven
\* by the loop  while (next()) { read the field with the accessor of its type }

MaxFields == 2

\* the schema of the messages: the logical type of each tag
SchemaTags == 1..7

Schema(t) ==
    CASE t = 1 -> "bool"
      [] t = 2 -> "int32"
      [] t = 3 -> "fixed32"
      [] t = 4 -> "string"
      [] t = 5 -> "packed"
      [] t = 6 -> "fixed64"
      [] t = 7 -> "sint64"

\* well-formed fields of that schema, each with a one-byte header: the bytes on
\* the wire and the value they encode (val the scalar, or the size and data
\* the payload of a string or a packed field).  A bool is any varint, here 1 and 128.
FieldCatalog ==
    { [bytes |-> <<8, 1>>,                       val |-> BitVec(1),        data |-> <<>>],
      [bytes |-> <<8, 128, 1>>,                  val |-> BitVec(1),        data |-> <<>>],
      [bytes |-> <<16, 150, 1>>,                 val |-> BitVec(150),      data |-> <<>>],
      [bytes |-> <<29, 1, 2, 3, 4>>,             val |-> BitVec(67305985), data |-> <<>>],
      [bytes |-> <<34, 2, 97, 98>>,              val |-> BitVec(2),         data |-> <<97, 98>>],
      [bytes |-> <<42, 2, 33, 44>>,              val |-> BitVec(2),         data |-> <<33, 44>>],
      [bytes |-> <<49, 1, 0, 0, 0, 0, 0, 0, 0>>, val |-> BitVec(1),        data |-> <<>>],
      [bytes |-> <<56, 3>>,                      val |-> Ones64 \ {0},     data |-> <<>>] }

RECURSIVE Messages(_)
Messages(n) ==
    IF n = 0 THEN {<<>>}
    ELSE LET M == Messages(n - 1) IN M \cup {Append(m, f) : m \in M, f \in FieldCatalog}

RECURSIVE Wire(_)
\* the bytes of a message
Wire(m) == IF m = <<>> THEN <<>> ELSE Head(m).bytes \o Wire(Tail(m))

\* the accessor the loop calls for the current field: by the schema, and skip()
\* for a tag the schema does not know
read_field(r) ==
    IF Fits(r.m_tag, 3) /\ LowBits(r.m_tag, 3) \in SchemaTags
    THEN IF Schema(LowBits(r.m_tag, 3)) = "packed" THEN get_packed(r)
         ELSE get(r, Schema(LowBits(r.m_tag, 3)), 0)
    ELSE skip(r)

TruncInit ==
    /\ assertions \in BOOLEAN
    /\ msg \in Messages(MaxFields) \ {<<>>}
    /\ mem = Wire(msg)
    /\ \E k \in 0..(Len(mem) - 1) : rd = [pbf_reader(0) EXCEPT !.m_end = k]
    /\ rd_last = NoCall
    /\ got = <<>>
    /\ pc = "next"
    /\ arg = NoArg
    /\ WriterIdle

TruncFrame == UNCHANGED <<assertions, mem, buffer, writers, wr_last, msg, arg>>

LoopNext ==
    /\ pc = "next"
    /\ LET res == next(rd)
       IN  /\ rd' = res.r
           /\ rd_last' = Called("next", "", res)
           /\ pc' = CASE res.out = "true" -> "read"
                      [] res.out = "false" -> "done"
                      [] OTHER -> "failed"
    /\ got' = got
    /\ TruncFrame

LoopRead ==
    /\ pc = "read"
    /\ LET res == read_field(rd)
       IN  /\ rd' = res.r
           /\ rd_last' = Called("read", "", res)
           /\ pc' = IF res.out = "ok" THEN "next" ELSE "failed"
           /\ got' = IF res.out = "ok"
                     THEN Append(got, [val |-> res.val,
                                       data |-> SubSeq(mem, res.vpos + 1, res.vpos + res.vlen)])
                     ELSE got
    /\ TruncFrame

TruncNext == LoopNext \/ LoopRead

TruncSpec == TruncInit /\ [][TruncNext]_vars

RECURSIVE Boundaries(_)
\* the offsets at which a field of the message ends
Boundaries(m) ==
    IF m = <<>> THEN {0}
    ELSE {0} \cup {Len(Head(m).bytes) + b : b \in Boundaries(Tail(m))}

\* C5: over a proper prefix of a well-formed message the loop either stops cleanly,
\* next() returning false at a field boundary, or fails with end_of_buffer; every
\* value it returned before equals the value in the full message and the cursor
\* never passes the prefix end.  For a single-field message every prefix of
\* length k >= 1 gives next() = true followed by end_of_buffer from the read.
C5_TruncationNeverWrong ==
    /\ rd.m_data <= rd.m_end
    /\ Len(got) <= Len(msg)
    /\ \A i \in 1..Len(got) : got[i].val = msg[i].val /\ got[i].data = msg[i].data
    /\ pc = "failed" => rd_last.out = "end_of_buffer"
    /\ pc = "done" => rd.m_end \in Boundaries(msg)
    /\ (Len(msg) = 1 /\ rd.m_end >= 1 /\ pc \in {"done", "failed"})
           => (pc = "failed" /\ rd_last.op = "read" /\ got = <<>>)

\* the same statement for the messages whose bool fields are one byte long
OneByteBools == \A i \in 1..Len(msg) : msg[i].bytes # <<8, 128, 1>>

TruncationNeverWrongOneByteBools == OneByteBools => C5_TruncationNeverWrong

----------------------------------------------------------------------------
\* pbf_writer.hpp
\*
\* The writers of a run are the records of the sequence writers, writers[1] the
\* top-level one; a pointer to a writer is its index, 0 the null pointer.  All
\* writers of a run share the one string, buffer, so m_data is kept as the flag
\* "m_data is not null".  Beside the four members a record keeps what its
\* constructor was given and saw: alive (the object's lifetime), tag, size, and
\* the buffer before and after its construction.
\*
\* The member functions are operators on a call state [buf, ws, out, misuse]:
\* the buffer, the writers, the outcome so far ("ok", or what ended the call)
\* and whether an assertion's condition was false where assertions are compiled
\* out.  A step that is not "ok" leaves the call state as it is.

Ok(s) == s.out = "ok"

\* protozero_assert(cond): ends the process where assertions are compiled in
protozero_assert(s, cond) ==
    IF ~Ok(s) \/ cond THEN s
    ELSE IF assertions THEN [s EXCEPT !.out = "assert"]
    ELSE [s EXCEPT !.misuse = TRUE]

\* m_data->append(...) and the back_inserter of *m_data, by writer w
append(s, w, bytes) ==
    IF ~Ok(s) THEN s
    ELSE IF ~s.ws[w].m_data THEN [s EXCEPT !.out = "null_deref"]
    ELSE [s EXCEPT !.buf = @ \o bytes]

\* the conversion through a 32-bit type whatever T::type
to_uint64_narrow(T, value) == Trunc(value, 32)

\* uint64_t(value) of a value of type T::type
to_uint64(T, value) ==
    IF type_size(T) = 8 THEN value
    ELSE IF type_signed(T) THEN SignExt(Trunc(value, 32), 32)
    ELSE Trunc(value, 32)

RECURSIVE store_le(_, _)
\* the size bytes of a value, little-endian
store_le(value, size) ==
    IF size = 0 THEN <<>>
    ELSE <<ByteOf(value, 0)>> \o store_le(Shr(value, 8), size - 1)

add_varint(s, w, value) ==
    LET a == protozero_assert(s, s.ws[w].m_pos = 0)
        b == protozero_assert(a, s.ws[w].m_data)
    IN  append(b, w, write_varint(value))

\* add_field that takes any tag
add_field_unchecked(s, w, tag, type) ==
    add_varint(s, w, BitOr(Trunc(Shl(tag, 3), 32), BitVec(type)))

add_field(s, w, tag, type) ==
    LET a == protozero_assert(s, tag_in_range(tag))
        b == BitOr(Trunc(Shl(tag, 3), 32), BitVec(type))
    IN  add_varint(a, w, b)

RECURSIVE store_be(_, _)
\* the size bytes of a value, most significant first
store_be(value, size) ==
    IF size = 0 THEN <<>>
    ELSE <<ByteOf(value, size - 1)>> \o store_be(value, size - 1)

\* add_fixed that appends the bytes in big-endian order
add_fixed_big_endian(s, w, T, value) ==
    LET a == protozero_assert(s, s.ws[w].m_pos = 0)
        b == protozero_assert(a, s.ws[w].m_data)
    IN  append(b, w, store_be(value, type_size(T)))

add_fixed(s, w, T, value) ==
    LET a == protozero_assert(s, s.ws[w].m_pos = 0)
        b == protozero_assert(a, s.ws[w].m_data)
    IN  append(b, w, store_le(value, type_size(T)))

\* a placeholder as long as the longest varint
reserve_bytes_max_varint == max_varint_length

reserve_bytes == (sizeof_pbf_length_type * 8) \div 7 + 1

\* std::numeric_limits<std::size_t>::max(), which no position equals
size_is_known == -1

\* the length written into a field of reserve_bytes bytes, as a child of unknown
\* size reserves them, and never closed up
add_length_varint_reserved(s, w, tag, length) ==
    LET a == add_varint(add_field(s, w, tag, pbf_wire_type_length_delimited), w, length)
    IN  append(a, w, [i \in 1..(reserve_bytes - Len(write_varint(length))) |-> 0])

add_length_varint(s, w, tag, length) ==
    add_varint(add_field(s, w, tag, pbf_wire_type_length_delimited), w, length)

\* m_data->size() read through writer w
data_size(s, w) ==
    IF ~Ok(s) THEN s
    ELSE IF ~s.ws[w].m_data THEN [s EXCEPT !.out = "null_deref"]
    ELSE s

\* an assignment to a member of writer w
set_member(s, w, rec) == IF ~Ok(s) THEN s ELSE [s EXCEPT !.ws[w] = rec]

open_submessage(s, w, tag, size) ==
    LET a == protozero_assert(s, s.ws[w].m_pos = 0)
        b == protozero_assert(a, s.ws[w].m_data)
        c == IF size = 0
             THEN LET c1 == data_size(b, w)
                      c2 == set_member(c1, w, [c1.ws[w] EXCEPT !.m_rollback_pos = Len(c1.buf)])
                      c3 == add_field(c2, w, tag, pbf_wire_type_length_delimited)
                  IN  append(c3, w, [i \in 1..reserve_bytes |-> 0])
             ELSE LET c1 == set_member(b, w, [b.ws[w] EXCEPT !.m_rollback_pos = size_is_known])
                  IN  add_length_varint(c1, w, tag, Trunc(BitVec(size), 32))
        d == data_size(c, w)
    IN  set_member(d, w, [d.ws[w] EXCEPT !.m_pos = Len(d.buf)])

\* m_data->resize(n): n bytes, the new ones zero; no string is SIZE_MAX long
resize(s, n) ==
    IF ~Ok(s) THEN s
    ELSE IF n = size_is_known THEN [s EXCEPT !.out = "length_error"]
    ELSE IF n <= Len(s.buf) THEN [s EXCEPT !.buf = SubSeq(@, 1, n)]
    ELSE [s EXCEPT !.buf = @ \o [i \in 1..(n - Len(s.buf)) |-> 0]]

\* the rollback that empties the string
rollback_submessage_clear(s, w) ==
    LET a == protozero_assert(s, s.ws[w].m_pos # 0)
        b == protozero_assert(a, s.ws[w].m_rollback_pos # size_is_known)
        c == protozero_assert(b, s.ws[w].m_data)
        d == resize(data_size(c, w), 0)
    IN  set_member(d, w, [d.ws[w] EXCEPT !.m_pos = 0])

rollback_submessage(s, w) ==
    LET a == protozero_assert(s, s.ws[w].m_pos # 0)
        b == protozero_assert(a, s.ws[w].m_rollback_pos # size_is_known)
        c == protozero_assert(b, s.ws[w].m_data)
        d == resize(data_size(c, w), s.ws[w].m_rollback_pos)
    IN  set_member(d, w, [d.ws[w] EXCEPT !.m_pos = 0])

\* the commit that leaves the placeholder in place
commit_submessage_no_erase(s, w) ==
    LET a == protozero_assert(s, s.ws[w].m_pos # 0)
        b == data_size(a, w)
        m_pos == s.ws[w].m_pos
        n == write_varint(BitVec(Len(s.buf) - m_pos))
        c == IF ~Ok(b) THEN b
             ELSE [b EXCEPT !.buf = SubSeq(@, 1, m_pos - reserve_bytes) \o n
                                    \o SubSeq(@, m_pos - reserve_bytes + Len(n) + 1, Len(@))]
    IN  set_member(c, w, [c.ws[w] EXCEPT !.m_pos = 0])

\* the commit whose length counts the placeholder as payload
commit_submessage_counts_placeholder(s, w) ==
    LET a == protozero_assert(s, s.ws[w].m_pos # 0)
        b == data_size(a, w)
        m_pos == s.ws[w].m_pos
        n == write_varint(BitVec(Len(s.buf) - (m_pos - reserve_bytes)))
        c == IF ~Ok(b) THEN b
             ELSE [b EXCEPT !.buf = SubSeq(@, 1, m_pos - reserve_bytes) \o n
                                    \o SubSeq(@, m_pos + 1, Len(@))]
    IN  set_member(c, w, [c.ws[w] EXCEPT !.m_pos = 0])

\* With the buffer shorter than m_pos the length wraps and write_varint writes
\* behind the end of the string: "out_of_range" stands for what follows.
commit_submessage(s, w) ==
    LET a == protozero_assert(s, s.ws[w].m_pos # 0)
        b == protozero_assert(a, s.ws[w].m_rollback_pos # size_is_known)
        m_pos == s.ws[w].m_pos
        c0 == data_size(protozero_assert(b, s.ws[w].m_data), w)
        c == protozero_assert(c0, Len(s.buf) >= m_pos - reserve_bytes)
        d == IF ~Ok(c) THEN c
             ELSE IF Len(c.buf) < m_pos \/ m_pos < reserve_bytes
             THEN [c EXCEPT !.out = "out_of_range"]
             ELSE LET length == Trunc(BitVec(Len(c.buf) - m_pos), 32)
                      n == write_varint(length)
                  IN  [c EXCEPT !.buf = SubSeq(@, 1, m_pos - reserve_bytes) \o n
                                         \o SubSeq(@, m_pos + 1, Len(@))]
    IN  set_member(d, w, [d.ws[w] EXCEPT !.m_pos = 0])

\* the close that commits whatever the payload
close_submessage_always_commit(s, w) ==
    LET a == protozero_assert(s, s.ws[w].m_data)
    IN  IF ~Ok(a) THEN a
        ELSE IF a.ws[w].m_pos = 0 \/ a.ws[w].m_rollback_pos = size_is_known THEN a
        ELSE commit_submessage(a, w)

\* the close that does not look for a size given in advance
close_submessage_no_size_check(s, w) ==
    LET a == protozero_assert(s, s.ws[w].m_data)
    IN  IF ~Ok(a) THEN a
        ELSE IF a.ws[w].m_pos = 0 THEN a
        ELSE LET b == data_size(a, w)
             IN  IF ~Ok(b) THEN b
                 ELSE IF Len(b.buf) - b.ws[w].m_pos = 0 THEN rollback_submessage(b, w)
                 ELSE commit_submessage(b, w)

\* the close that looks at the payload without looking at m_pos first
close_submessage_no_pos_check(s, w) ==
    LET a == protozero_assert(s, s.ws[w].m_data)
    IN  IF ~Ok(a) THEN a
        ELSE IF a.ws[w].m_rollback_pos = size_is_known THEN a
        ELSE LET b == data_size(a, w)
             IN  IF ~Ok(b) THEN b
                 ELSE IF Len(b.buf) - b.ws[w].m_pos = 0 THEN rollback_submessage(b, w)
                 ELSE commit_submessage(b, w)

close_submessage(s, w) ==
    LET a == protozero_assert(s, s.ws[w].m_data)
    IN  IF ~Ok(a) THEN a
        ELSE IF a.ws[w].m_pos = 0 \/ a.ws[w].m_rollback_pos = size_is_known THEN a
        ELSE LET b == data_size(a, w)
             IN  IF ~Ok(b) THEN b
                 ELSE IF Len(b.buf) - b.ws[w].m_pos = 0 THEN rollback_submessage(b, w)
                 ELSE commit_submessage(b, w)

\* add_impl that writes a length-delimited value without its length
add_impl_no_length(s, w, T, value) ==
    CASE type_tag(T) = "varint_tag" ->
            append(s, w, write_varint(to_uint64(T, value)))
      [] type_tag(T) = "bool_tag" ->
            append(s, w, <<ByteOf(value, 0)>>)
      [] type_tag(T) = "svarint_tag" ->
            append(s, w, write_varint(encode_zigzag64(to_uint64(T, value))))
      [] type_tag(T) = "fixed_tag" ->
            add_fixed(s, w, T, value)
      [] type_tag(T) = "length_delimited_tag" ->
            append(s, w, value)

\* add_impl by the tag of T; the value of a length-delimited T is its bytes
add_impl(s, w, T, value) ==
    CASE type_tag(T) = "varint_tag" ->
            append(s, w, write_varint(to_uint64(T, value)))
      [] type_tag(T) = "bool_tag" ->
            append(s, w, <<ByteOf(value, 0)>>)
      [] type_tag(T) = "svarint_tag" ->
            append(s, w, write_varint(encode_zigzag64(to_uint64(T, value))))
      [] type_tag(T) = "fixed_tag" ->
            add_fixed(s, w, T, value)
      [] type_tag(T) = "length_delimited_tag" ->
            append(add_varint(s, w, Trunc(BitVec(Len(value)), 32)), w, value)

RECURSIVE add_elements(_, _, _, _)
\* the elements that follow one whose add_impl ended in call state a
add_elements_after(a, w, T, elems) ==
    IF Ok(a) THEN add_elements(a, w, T, elems) ELSE a

\* while (first != last) add_impl(*first++)
add_elements(s, w, T, elems) ==
    IF elems = <<>> THEN s
    ELSE add_elements_after(add_impl(s, w, T, Head(elems)), w, T, Tail(elems))

\* pbf_writer(std::string&)
pbf_writer(data) ==
    [m_data |-> TRUE, m_parent_writer |-> 0, m_rollback_pos |-> 0, m_pos |-> 0,
     alive |-> TRUE, tag |-> Zero64, size |-> 0, before |-> data, after |-> data]

\* pbf_writer(parent_writer, tag, size): the new writer is the last of ws
pbf_writer_sub(s, parent_writer, tag, size) ==
    LET sub == [m_data |-> s.ws[parent_writer].m_data, m_parent_writer |-> parent_writer,
                m_rollback_pos |-> 0, m_pos |-> 0,
                alive |-> TRUE, tag |-> tag, size |-> size, before |-> s.buf, after |-> s.buf]
        a == [s EXCEPT !.ws = Append(@, sub)]
        b == open_submessage(a, parent_writer, tag, size)
    IN  [b EXCEPT !.ws[Len(a.ws)].after = b.buf]

\* ~pbf_writer()
destructor(s, w) ==
    LET a == IF s.ws[w].m_parent_writer # 0
             THEN close_submessage(s, s.ws[w].m_parent_writer)
             ELSE s
    IN  [a EXCEPT !.ws[w].alive = FALSE]

rollback(s, w) ==
    LET a == protozero_assert(s, s.ws[w].m_parent_writer # 0)
        b == protozero_assert(a, s.ws[w].m_pos = 0)
        c == IF ~Ok(b) THEN b
             ELSE IF s.ws[w].m_parent_writer = 0 THEN [b EXCEPT !.out = "null_deref"]
             ELSE rollback_submessage(b, s.ws[w].m_parent_writer)
    IN  set_member(c, w, [c.ws[w] EXCEPT !.m_data = FALSE])

\* add_packed_impl for a range whose length is not taken in advance: through a
\* writer sw local to the call
add_packed_impl(s, w, T, tag, elems) ==
    LET a == pbf_writer_sub(s, w, tag, 0)
        sw == Len(a.ws)
        b == add_elements(a, sw, T, elems)
        c == destructor(b, sw)
    IN  [c EXCEPT !.ws = SubSeq(@, 1, Len(s.ws))]

\* fixed-size elements written as the elements of unknown total length are
add_packed_impl_fixed_through_sw(s, w, T, tag, elems) ==
    add_packed_impl(s, w, T, tag, elems)

\* add_packed_impl for fixed-size elements in a forward range
add_packed_impl_fixed(s, w, T, tag, elems) ==
    LET a == add_length_varint(s, w, tag, Trunc(BitVec(type_size(T) * Len(elems)), 32))
    IN  add_elements(a, w, T, elems)

\* add<T>(tag, first, last) that goes on for a range of no elements
add_packed_no_empty_check(s, w, T, tag, elems, forward) ==
    IF T \in FixedTypes /\ forward THEN add_packed_impl_fixed(s, w, T, tag, elems)
    ELSE add_packed_impl(s, w, T, tag, elems)

\* add<T>(tag, first, last)
add_packed(s, w, T, tag, elems, forward) ==
    IF elems = <<>> THEN s
    ELSE IF T \in FixedTypes /\ forward THEN add_packed_impl_fixed(s, w, T, tag, elems)
    ELSE add_packed_impl(s, w, T, tag, elems)

\* add<T>(tag, value) for a scalar or length-delimited T
add(s, w, T, tag, value) ==
    LET a == add_field(s, w, tag, type_wire_type(T))
        b == protozero_assert(a, s.ws[w].m_pos = 0)
        c == protozero_assert(b, s.ws[w].m_data)
    IN  add_impl(c, w, T, value)

----------------------------------------------------------------------------
\* Writer runs: a top-level writer on a string and the calls a program makes on
\* it and on the submessage writers it constructs.  A parent outlives its
\* children; siblings are destroyed in any order; a writer that was rolled back
\* is only destroyed.  A call that breaks the condition of an assertion is made
\* where assertions are compiled in, and ends the process there; what the library
\* does after it without assertions is outside its contract.

MaxWriters == 3

MaxCalls == 5

KnownSize == 2

BigLen == 128

PriorBuffers == { <<>>, <<8, 1>> }

Tags == { BitVec(1), BitVec(16) }

AddTags == { BitVec(2) }

ScalarInputs ==
    { <<"sint64", Ones64>> }

Payloads == { [i \in 1..BigLen |-> 7] }

PackedInputs == { <<"fixed32", <<BitVec(1)>>>> }

ReaderIdle ==
    /\ mem = <<>>
    /\ rd = pbf_reader(0)
    /\ rd_last = NoCall

WriterInit ==
    /\ assertions \in BOOLEAN
    /\ buffer \in PriorBuffers
    /\ writers = <<pbf_writer(buffer)>>
    /\ wr_last = NoWrite
    /\ ReaderIdle
    /\ TruncIdle

WriterFrame == UNCHANGED <<assertions, mem, rd, rd_last, msg, got, pc, arg>>

WriterRunning == wr_last.out = "ok" /\ wr_last.calls < MaxCalls

Alive == {w \in 1..Len(writers) : writers[w].alive}

\* the writers that were not rolled back
Usable == {w \in Alive : writers[w].m_data}

Children(w) == {c \in Alive : writers[c].m_parent_writer = w}

\* the call state a call starts from
Start == [buf |-> buffer, ws |-> writers, out |-> "ok", misuse |-> FALSE]

\* the call state a call ends in becomes the state of the run
Wrote(op, w, n, s) ==
    /\ ~s.misuse
    /\ buffer' = s.buf
    /\ writers' = s.ws
    /\ wr_last' = [op |-> op, w |-> w, out |-> s.out, n |-> n, calls |-> wr_last.calls + 1]
    /\ WriterFrame

OpenChild ==
    /\ WriterRunning
    /\ Len(writers) < MaxWriters
    /\ \E w \in Usable, tag \in Tags, size \in {0, KnownSize} :
          /\ size # 0 => tag = BitVec(1)
          /\ Wrote("open", w, 1, pbf_writer_sub(Start, w, tag, size))

AddScalar ==
    /\ WriterRunning
    /\ \E w \in Usable, tag \in AddTags, in \in ScalarInputs :
          Wrote("add", w, 1, add(Start, w, in[1], tag, in[2]))

AddBytes ==
    /\ WriterRunning
    /\ \E w \in Usable, tag \in AddTags, value \in Payloads :
          Wrote("add", w, 1, add(Start, w, "bytes", tag, value))

AddPacked ==
    /\ WriterRunning
    /\ \E w \in Usable, tag \in AddTags, in \in PackedInputs, forward \in BOOLEAN :
          Wrote("add_packed", w, Len(in[2]),
                add_packed(Start, w, in[1], tag, in[2], forward))

Rollback ==
    /\ WriterRunning
    /\ \E w \in Usable :
          /\ writers[w].m_parent_writer # 0
          /\ Wrote("rollback", w, 0, rollback(Start, w))

\* n is the number of bytes behind those the writer's construction left
Destroy ==
    /\ WriterRunning
    /\ \E w \in Alive :
          /\ Children(w) = {}
          /\ writers[w].m_parent_writer # 0
          /\ Wrote("destroy", w, Len(buffer) - Len(writers[w].after),
                   destructor(Start, w))

WriterNext == OpenChild \/ AddScalar \/ AddBytes \/ AddPacked \/ Rollback \/ Destroy

WriterSpec == WriterInit /\ [][WriterNext]_vars

----------------------------------------------------------------------------
\* Submessages

Subs == {c \in 1..Len(writers) : writers[c].alive /\ writers[c].m_parent_writer # 0}

\* the step is the call op on writer c
Calls(op, c) == wr_last'.op = op /\ wr_last'.w = c /\ wr_last'.calls = wr_last.calls + 1

\* varint((t << 3) | 2)
SubmessageHeader(t) ==
    write_varint(BitOr(Shl(t, 3), BitVec(pbf_wire_type_length_delimited)))

\* C6: a child writer of unknown size that is destroyed with no byte appended
\* since its construction leaves the buffer as it was before the construction,
\* whatever the buffer held before and whatever the tag
C6_RollbackOnEmpty ==
    [][ \A c \in Subs :
          ( /\ Calls("destroy", c)
            /\ writers[c].size = 0
            /\ writers[c].m_data
            /\ buffer = writers[c].after )
          => buffer' = writers[c].before ]_vars

C6_Witness ==
    /\ wr_last.op = "destroy"
    /\ wr_last.n = 0
    /\ wr_last.w \in 1..Len(writers)
    /\ LET c == writers[wr_last.w]
       IN  /\ c.size = 0
           /\ c.m_data
           /\ c.tag = BitVec(16)
           /\ c.before = <<8, 1>>
           /\ Len(c.after) = 2 + 2 + reserve_bytes
           /\ buffer = <<8, 1>>

\* C7: destroying a child writer of unknown size and tag t behind whose header
\* and placeholder n >= 1 bytes were appended leaves, from the rollback position
\* on, varint((t << 3) | 2), varint(n) at its natural size and the n bytes, and
\* nothing else
C7_CommitLayout ==
    [][ \A c \in Subs :
          ( /\ Calls("destroy", c)
            /\ writers[c].size = 0
            /\ writers[c].m_data
            /\ Len(buffer) > Len(writers[c].after)
            /\ SubSeq(buffer, 1, Len(writers[c].after)) = writers[c].after )
          => buffer' = writers[c].before
                          \o SubmessageHeader(writers[c].tag)
                          \o write_varint(BitVec(Len(buffer) - Len(writers[c].after)))
                          \o SubSeq(buffer, Len(writers[c].after) + 1, Len(buffer)) ]_vars

\* a committed submessage whose length takes two bytes
C7_Witness ==
    /\ wr_last.op = "destroy"
    /\ wr_last.out = "ok"
    /\ wr_last.n >= 128
    /\ wr_last.w \in 1..Len(writers)
    /\ LET c == writers[wr_last.w]
       IN  /\ c.size = 0
           /\ c.m_data
           /\ Len(buffer) = Len(c.before) + Len(SubmessageHeader(c.tag)) + 2 + wr_last.n
           /\ Len(buffer) = Len(c.after) + wr_last.n - (reserve_bytes - 2)

\* C8: destroying a child writer that was not rolled back clears the open-child
\* flag of its parent, whether the close commits, rolls an empty submessage back
\* or the size was given in advance
C8_FlagClearAfterChild ==
    [][ \A c \in Subs :
          ( /\ Calls("destroy", c)
            /\ wr_last'.out = "ok"
            /\ writers[c].m_data )
          => writers'[writers[c].m_parent_writer].m_pos = 0 ]_vars

\* the children of w that can append
OpenChildren(w) == {c \in Usable : writers[c].m_parent_writer = w}

\* C9: with assertions, a call that would append bytes through a writer or open a
\* child on it while a child of it is open fails an assertion and leaves the
\* buffer unchanged
C9_OnlyInnermostAppends ==
    [][ \A w \in Usable :
          ( /\ assertions
            /\ \E op \in {"add", "add_packed", "open"} : Calls(op, w)
            /\ wr_last'.n > 0
            /\ OpenChildren(w) # {} )
          => (wr_last'.out = "assert" /\ buffer' = buffer) ]_vars

\* C10: rollback() on a child of unknown size cuts the buffer at the length it
\* had before the child was constructed and clears the open-child flag of the
\* parent; destroying a rolled-back child changes neither the buffer nor the
\* parent
C10_RollbackThenDestroyNoOp ==
    [][ \A c \in Subs :
          /\ ( /\ Calls("rollback", c)
               /\ wr_last'.out = "ok"
               /\ writers[c].size = 0 )
             => /\ buffer' = SubSeq(buffer, 1, Len(writers[c].before))
                /\ writers'[writers[c].m_parent_writer].m_pos = 0
          /\ ( /\ Calls("destroy", c)
               /\ ~writers[c].m_data )
             => /\ buffer' = buffer
                /\ writers'[writers[c].m_parent_writer] = writers[writers[c].m_parent_writer]
      ]_vars

----------------------------------------------------------------------------
\* Declared-size runs: one child of a top-level writer is constructed with the
\* size of its payload declared, the payload is added field by field and the
\* child is destroyed; mem holds what the same calls leave in the buffer when the
\* child is constructed with size 0.

MaxItems == 2

\* the add calls a payload is made of
Items ==
    {<<"add", in[1], in[2]>> : in \in ScalarInputs}
        \cup {<<"add", "bytes", v>> : v \in Payloads}
        \cup {<<"add_packed", in[1], in[2]>> : in \in PackedInputs}

RECURSIVE ItemLists(_)
ItemLists(n) ==
    IF n = 0 THEN {<<>>}
    ELSE LET L == ItemLists(n - 1) IN L \cup {Append(l, i) : l \in L, i \in Items}

\* one add call of the payload, through writer w
add_item(s, w, tag, item) ==
    IF item[1] = "add" THEN add(s, w, item[2], tag, item[3])
    ELSE add_packed(s, w, item[2], tag, item[3], TRUE)

RECURSIVE add_items(_, _, _, _)
\* the calls that follow one that ended in call state a
add_items_after(a, w, tag, items) ==
    IF Ok(a) THEN add_items(a, w, tag, items) ELSE a

add_items(s, w, tag, items) ==
    IF items = <<>> THEN s
    ELSE add_items_after(add_item(s, w, tag, Head(items)), w, tag, Tail(items))

\* the bytes the add calls append to an empty string
PayloadOf(items) ==
    add_items([buf |-> <<>>, ws |-> <<pbf_writer(<<>>)>>, out |-> "ok", misuse |-> FALSE],
              1, CHOOSE t \in AddTags : TRUE, items).buf

\* { pbf_writer child(parent, tag, size); the add calls on child; }
write_child(data, tag, size, items) ==
    LET a == [buf |-> data, ws |-> <<pbf_writer(data)>>, out |-> "ok", misuse |-> FALSE]
        b == pbf_writer_sub(a, 1, tag, size)
        c == add_items(b, 2, CHOOSE t \in AddTags : TRUE, items)
    IN  destructor(c, 2)

SizeInit ==
    /\ assertions \in BOOLEAN
    /\ buffer \in PriorBuffers
    /\ writers = <<pbf_writer(buffer)>>
    /\ wr_last = NoWrite
    /\ msg \in ItemLists(MaxItems) \ {<<>>}
    /\ got = <<>>
    /\ pc = "open"
    /\ arg = NoArg
    /\ ReaderIdle

SizeFrame == UNCHANGED <<assertions, rd, rd_last, arg>>

SizeCalled(op, w, s) ==
    /\ buffer' = s.buf
    /\ writers' = s.ws
    /\ wr_last' = [op |-> op, w |-> w, out |-> s.out, n |-> 1, calls |-> wr_last.calls + 1]

\* got keeps the payload for the comparison
SizeOpen ==
    /\ pc = "open"
    /\ \E tag \in Tags :
          /\ SizeCalled("open", 1, pbf_writer_sub(Start, 1, tag, Len(PayloadOf(msg))))
          /\ mem' = write_child(buffer, tag, 0, msg).buf
    /\ got' = msg
    /\ msg' = msg
    /\ pc' = "add"
    /\ SizeFrame

SizeAdd ==
    /\ pc = "add"
    /\ wr_last.out = "ok"
    /\ msg # <<>>
    /\ SizeCalled("add", 2, add_item(Start, 2, CHOOSE t \in AddTags : TRUE, Head(msg)))
    /\ msg' = Tail(msg)
    /\ pc' = "add"
    /\ UNCHANGED <<mem, got>>
    /\ SizeFrame

SizeClose ==
    /\ pc = "add"
    /\ wr_last.out = "ok"
    /\ msg = <<>>
    /\ SizeCalled("destroy", 2, destructor(Start, 2))
    /\ pc' = "closed"
    /\ UNCHANGED <<mem, msg, got>>
    /\ SizeFrame

SizeNext == SizeOpen \/ SizeAdd \/ SizeClose

SizeSpec == SizeInit /\ [][SizeNext]_vars

\* C11: a child constructed with the size of its payload declared leaves, once
\* the payload is written and the child destroyed, the bytes that the same calls
\* leave when the child is constructed with size 0
C11_KnownSizeSameBytes ==
    pc = "closed" => (wr_last.out = "ok" /\ buffer = mem)

C11_Witness ==
    /\ pc = "closed"
    /\ buffer = mem
    /\ Len(got) = 2
    /\ Len(PayloadOf(got)) > 128
    /\ writers[2].tag = BitVec(16)
    /\ writers[2].size = Len(PayloadOf(got))
    /\ writers[2].before = <<8, 1>>
    /\ Len(buffer) = 2 + 2 + 2 + Len(PayloadOf(got))

----------------------------------------------------------------------------
\* Reader claims on field advance, skipping and consuming

\* the logical types a field of wire type wt may be read as
TypesOfWireType(wt) ==
    {T \in ScalarTypes \cup LengthDelimitedTypes : type_wire_type(T) = wt}

\* the typed read of the current field of r as T: get_<type>(), and for a
\* length-delimited field get_view() or get_packed_<type>() alike
typed_read(r, T, oob) ==
    IF T \in LengthDelimitedTypes THEN get_packed(r) ELSE get(r, T, oob)

\* C12: a skip() of a well-formed current field leaves the cursor where every
\* matching typed read of that field would leave it
C12_SkipSameAsRead ==
    [][ ( /\ HasCurrent
          /\ rd_last'.op = "skip"
          /\ rd_last'.out = "ok" )
        => \A T \in TypesOfWireType(rd.m_wire_type) : \A oob \in OobChoices(rd, T) :
              LET g == typed_read(rd, T, oob)
              IN  g.out = "ok" /\ g.r.m_data = rd'.m_data ]_vars

\* the same for every logical type but bool
SkipSameAsReadExceptBool ==
    [][ ( /\ HasCurrent
          /\ rd_last'.op = "skip"
          /\ rd_last'.out = "ok" )
        => \A T \in TypesOfWireType(rd.m_wire_type) \ {"bool"} :
              LET g == typed_read(rd, T, 0)
              IN  g.out = "ok" /\ g.r.m_data = rd'.m_data ]_vars

\* Filter runs: a reader over a whole well-formed message, driven by the loop
\*   while (next(arg)) { read the field with the accessor of its type }

FilterInit ==
    /\ assertions \in BOOLEAN
    /\ msg \in Messages(MaxFields)
    /\ mem = Wire(msg)
    /\ rd = pbf_reader(Len(mem))
    /\ rd_last = NoCall
    /\ got = <<>>
    /\ pc = "next"
    /\ arg \in {BitVec(t) : t \in SchemaTags}
    /\ WriterIdle

FilterNextTag ==
    /\ pc = "next"
    /\ LET res == next_tag(rd, arg)
       IN  /\ rd' = res.r
           /\ rd_last' = Called("next_tag", "", res)
           /\ pc' = CASE res.out = "true" -> "read"
                      [] res.out = "false" -> "done"
                      [] OTHER -> "failed"
    /\ got' = got
    /\ TruncFrame

FilterNext == FilterNextTag \/ LoopRead

FilterSpec == FilterInit /\ [][FilterNext]_vars

\* the fields of message m whose header is tag t
FieldsOfTag(m, t) ==
    SelectSeq(m, LAMBDA f : Shr(BitVec(f.bytes[1]), 3) = t)

\* C13: the loop over next(t) reads exactly the fields of tag t, in wire order;
\* next(t) returns true while one is left and false once none is, and then
\* the cursor is at the end
C13_NextTagFilters ==
    LET want == FieldsOfTag(msg, arg)
    IN  /\ Len(got) <= Len(want)
        /\ \A i \in 1..Len(got) : got[i].val = want[i].val /\ got[i].data = want[i].data
        /\ pc = "read" => (rd.m_tag = arg /\ Len(got) < Len(want))
        /\ pc = "done" => (got = [i \in 1..Len(want) |-> [val |-> want[i].val, data |-> want[i].data]]
                           /\ rd.m_data = rd.m_end)
        /\ pc # "failed"

\* the same statement for the messages whose bool fields are one byte long
NextTagFiltersOneByteBools == OneByteBools => C13_NextTagFilters

\* a typed read or skip() of the current field that succeeded on this step
Consumed ==
    /\ HasCurrent
    /\ rd_last'.op \in {"get", "get_view", "get_packed", "skip"}
    /\ rd_last'.out = "ok"

\* in reader r a typed read or skip() fails the assertion "call next() before"
NoCurrentField(r) ==
    /\ IsZero(r.m_tag)
    /\ skip(r).out = "assert"
    /\ get_packed(r).out = "assert"
    /\ \A T \in ScalarTypes \cup LengthDelimitedTypes : get(r, T, 0).out = "assert"

\* C14: in a build with assertions every successful typed read or skip() leaves
\* the tag 0, so that a second typed read or skip() without a next() in between
\* fails the assertion
C14_ConsumeEndsField ==
    [][ (assertions /\ Consumed) => NoCurrentField(rd') ]_vars

\* the same for the reads that go through skip_bytes: get_bool, the fixed-width
\* and length-delimited reads, and skip() of a field that is not a varint
ConsumeEndsFieldSkipBytes ==
    [][ ( /\ assertions
          /\ Consumed
          /\ rd.m_wire_type = pbf_wire_type_varint => rd_last'.T = "bool" )
        => NoCurrentField(rd') ]_vars

\* Wire-type runs: a reader over a block that starts with a header of a valid tag
\* (1, or 16 with a two-byte header) and any of the eight wire types, or with
\* the six-byte header varint 2^35 + 8, whose value shifted right by 3 does not
\* fit pbf_tag_type

WireTypes == 0..7

WireHeads ==
    {<<8 + wt>> : wt \in WireTypes} \cup {<<128 + wt, 1>> : wt \in WireTypes}
        \cup { <<136, 128, 128, 128, 128, 1>> }

WireTails == { <<>>, <<1>>, <<1, 16, 1>>, <<1, 2, 3, 4, 5, 6, 7, 128>> }

WireInit ==
    /\ assertions \in BOOLEAN
    /\ mem \in {h \o t : h \in WireHeads, t \in WireTails}
    /\ rd = pbf_reader(Len(mem))
    /\ rd_last = NoCall
    /\ WriterIdle
    /\ TruncIdle

WireSpec == WireInit /\ [][ReaderNext]_vars

\* the header varint at the cursor of r
HeaderAt(r) == decode_varint(r.m_data, r.m_end)

C16_EndOfMessage ==
    [][ rd_last'.op = "next"
        => /\ (rd_last'.out = "false") <=> (rd.m_data = rd.m_end)
           /\ rd_last'.out = "false" => rd' = rd
           /\ (rd_last.op = "init" /\ mem = <<>>) => rd_last'.out = "false" ]_vars

\* next() returned false at the end of a block whose field was read before
C16_Witness ==
    /\ rd_last.op = "next"
    /\ rd_last.out = "false"
    /\ rd.m_data = rd.m_end
    /\ rd.m_end = 2
    /\ rd.m_tag = BitVec(1)
    /\ rd.m_wire_type = pbf_wire_type_varint

\* the first next() of a reader over no bytes returned false
EndOfMessageNoBytes ==
    /\ rd_last.op = "next"
    /\ rd_last.out = "false"
    /\ mem = <<>>
    /\ rd = pbf_reader(0)

\* the wire types next() accepts
KnownWireTypes ==
    {pbf_wire_type_varint, pbf_wire_type_fixed64, pbf_wire_type_length_delimited,
     pbf_wire_type_fixed32}

\* next() on a header of a valid tag: true for wire types 0, 1, 2, 5 and
\* unknown_wire_type for 3, 4, 6, 7
NextValidatesWireType ==
    [][ ( /\ rd_last'.op = "next"
          /\ HeaderAt(rd).out = "ok"
          /\ rd.m_data # rd.m_end
          /\ Fits(Shr(HeaderAt(rd).val, 3), 32)
          /\ tag_in_range(Shr(HeaderAt(rd).val, 3)) )
        => IF LowBits(HeaderAt(rd).val, 3) \in KnownWireTypes
           THEN rd_last'.out = "true"
           ELSE rd_last'.out = "unknown_wire_type" ]_vars

\* C17: for every valid tag next() returns true on wire types 0, 1, 2, 5 and fails
\* with unknown_wire_type on 3, 4, 6, 7, and no typed read or skip() goes ahead
\* on a reader whose current field has wire type 3, 4, 6 or 7
C17_WireTypeValidation ==
    [][ /\ ( /\ rd_last'.op = "next"
             /\ HeaderAt(rd).out = "ok"
             /\ rd.m_data # rd.m_end
             /\ Fits(Shr(HeaderAt(rd).val, 3), 32)
             /\ tag_in_range(Shr(HeaderAt(rd).val, 3)) )
           => IF LowBits(HeaderAt(rd).val, 3) \in KnownWireTypes
              THEN rd_last'.out = "true"
              ELSE rd_last'.out = "unknown_wire_type"
        /\ ( /\ rd_last'.op \in {"get", "get_view", "get_packed", "skip"}
             /\ ~IsZero(rd.m_tag)
             /\ rd.m_wire_type \in WireTypes \ KnownWireTypes )
           => rd_last'.out # "ok" ]_vars

----------------------------------------------------------------------------
\* Round-trip runs: one field is added by a top-level writer, add_<type>(tag, v) or
\* add_packed_<type>(tag, first, last), and a reader over the bytes the call
\* appended reads it back: next(), then get_<type>() or get_packed_<type>() and a
\* pass over the range.  arg is the call: its type, tag and value or elements.

MaxElems == 2

\* number of fixed64 elements whose bytes need a length varint of two bytes
LongCount == 16

\* tags with a header of one, two and five bytes (the last is the largest tag)
RoundTags == { BitVec(7), BitVec(16), 0..28 }

\* values of T::type: 0, 1, 150, the largest and smallest signed value and the
\* value of all one bits (32-bit types are kept as their 32 bits)
ValuesOf(T) ==
    IF T = "bool" THEN { Zero64, BitVec(1) }
    ELSE IF type_size(T) = 4
    THEN { Zero64, BitVec(1), BitVec(150), 0..30, {31}, 0..31 }
    ELSE { Zero64, BitVec(1), BitVec(150), 0..62, {63}, Ones64 }

\* elements of a packed field: 22, -17 (as unsigned, the largest value less 16), 150
ElemValues(T) ==
    IF T = "bool" THEN { Zero64, BitVec(1) }
    ELSE IF type_size(T) = 4 THEN { BitVec(22), (0..31) \ {4}, BitVec(150) }
    ELSE { BitVec(22), Ones64 \ {4}, BitVec(150) }

RECURSIVE ElemSeqs(_, _)
ElemSeqs(T, n) ==
    IF n = 0 THEN {<<>>}
    ELSE LET L == ElemSeqs(T, n - 1) IN L \cup {Append(l, x) : l \in L, x \in ElemValues(T)}

\* the ranges given to add_packed_<type>: up to MaxElems elements, and for
\* fixed64 one of LongCount elements
Ranges(T) ==
    (ElemSeqs(T, MaxElems) \ {<<>>})
        \cup (IF T = "fixed64" THEN {[i \in 1..LongCount |-> BitVec(1)]} ELSE {})

RoundArgs ==
    UNION { { [kind |-> "scalar", T |-> T, tag |-> t, value |-> v, elems |-> <<>>,
                forward |-> FALSE] :
                t \in RoundTags, v \in ValuesOf(T) } : T \in ScalarTypes }
      \cup
    UNION { { [kind |-> "packed", T |-> T, tag |-> t, value |-> Zero64, elems |-> xs,
                forward |-> f] :
                t \in RoundTags \ {0..28}, xs \in Ranges(T), f \in BOOLEAN } : T \in ScalarTypes }

\* what stands in a range's values where decoding an element throws
RangeError == {-1}

RECURSIVE range_values(_, _, _)
\* the values a pass over the range [p, end) of get_packed_<type>() yields:
\* fixed-size elements are loaded, the others decoded as varints
range_values(T, p, end) ==
    IF p >= end THEN <<>>
    ELSE IF T \in FixedTypes
    THEN <<load_le(p, type_size(T))>> \o range_values(T, p + type_size(T), end)
    ELSE LET d == decode_varint(p, end)
         IN  IF d.out # "ok" THEN <<RangeError>>
             ELSE <<convert(T, IF T \in SvarintTypes THEN decode_zigzag64(d.val) ELSE d.val)>>
                      \o range_values(T, d.pos, end)

RoundInit ==
    /\ assertions \in BOOLEAN
    /\ arg \in RoundArgs
    /\ buffer \in PriorBuffers
    /\ writers = <<pbf_writer(buffer)>>
    /\ wr_last = NoWrite
    /\ msg = <<>>
    /\ got = <<>>
    /\ pc = "add"
    /\ ReaderIdle

RoundFrame == UNCHANGED <<assertions, msg, arg>>

\* the call state an add call ends in becomes the state of the run, and a reader
\* is constructed on the bytes the call appended
RoundWrote(s) ==
    /\ buffer' = s.buf
    /\ writers' = s.ws
    /\ wr_last' = [op |-> "add", w |-> 1, out |-> s.out, n |-> 1, calls |-> 1]
    /\ mem' = SubSeq(s.buf, Len(buffer) + 1, Len(s.buf))
    /\ rd' = pbf_reader(Len(s.buf) - Len(buffer))
    /\ pc' = IF s.out = "ok" THEN "next" ELSE "failed"

RoundAdd ==
    /\ pc = "add"
    /\ RoundWrote(IF arg.kind = "scalar" THEN add(Start, 1, arg.T, arg.tag, arg.value)
                  ELSE add_packed(Start, 1, arg.T, arg.tag, arg.elems, arg.forward))
    /\ UNCHANGED <<rd_last, got>>
    /\ RoundFrame

RoundNext ==
    /\ pc = "next"
    /\ LET res == next(rd)
       IN  /\ rd' = res.r
           /\ rd_last' = Called("next", "", res)
           /\ pc' = IF res.out = "true" THEN "get" ELSE "failed"
    /\ UNCHANGED <<mem, buffer, writers, wr_last, got>>
    /\ RoundFrame

\* what a typed read gave becomes the state of the run; the range of a packed
\* field is passed over
RoundRead(op, res) ==
    /\ rd' = res.r
    /\ rd_last' = Called(op, arg.T, res)
    /\ pc' = IF res.out = "ok" THEN "done" ELSE "failed"
    /\ got' = IF res.out # "ok" THEN got
              ELSE IF arg.kind = "scalar" THEN <<res.val>>
              ELSE range_values(arg.T, res.vpos, res.vpos + res.vlen)

RoundGet ==
    /\ pc = "get"
    /\ IF arg.kind = "scalar" THEN RoundRead("get", get(rd, arg.T, 0))
       ELSE RoundRead("get_packed", get_packed(rd))
    /\ UNCHANGED <<mem, buffer, writers, wr_last>>
    /\ RoundFrame

RoundNextStep == RoundAdd \/ RoundNext \/ RoundGet

RoundSpec == RoundInit /\ [][RoundNextStep]_vars

\* C18: for every integer scalar type T, valid tag and value v, the reader over
\* the bytes appended by add_T(tag, v) returns true from next() with that tag
\* and the wire type of T, get_T() returns v, and the cursor is then at the end
C18_ScalarRoundTrip ==
    arg.kind = "scalar" =>
        /\ pc # "failed"
        /\ pc = "get" => /\ rd_last.op = "next"
                         /\ rd_last.out = "true"
                         /\ rd.m_tag = arg.tag
                         /\ rd.m_wire_type = type_wire_type(arg.T)
        /\ pc = "done" => /\ rd_last.op = "get"
                          /\ rd_last.out = "ok"
                          /\ got = <<arg.value>>
                          /\ rd.m_data = rd.m_end
                          /\ rd.m_end = Len(mem)

\* the smallest sint32 written with the largest tag behind a non-empty buffer
\* and read back
C18_Witness ==
    /\ arg.kind = "scalar"
    /\ pc = "done"
    /\ arg.T = "sint32"
    /\ arg.value = {31}
    /\ arg.tag = 0..28
    /\ got = <<{31}>>
    /\ buffer = <<8, 1>> \o mem
    /\ Len(mem) = 5 + 5
    /\ rd.m_data = 10

\* the bytes add_T(tag, x) appends to an empty string
ScalarBytes(T, tag, x) ==
    add([buf |-> <<>>, ws |-> <<pbf_writer(<<>>)>>, out |-> "ok", misuse |-> FALSE],
        1, T, tag, x).buf

\* the encoding of one element: what add_T(1, x) appends behind its one-byte header
ElemBytes(T, x) == Tail(ScalarBytes(T, BitVec(1), x))

RECURSIVE PackedPayload(_, _)
\* the concatenation of the element encodings
PackedPayload(T, xs) ==
    IF xs = <<>> THEN <<>> ELSE ElemBytes(T, Head(xs)) \o PackedPayload(T, Tail(xs))

\* the header varint of a length-delimited field
LengthDelimitedHeader(tag) ==
    write_varint(BitOr(Shl(tag, 3), BitVec(pbf_wire_type_length_delimited)))

\* C19: add_packed_<type>(tag, xs) for a non-empty xs appends one length-delimited
\* field whose payload is the concatenation of the element encodings, without
\* per-element tags and with sint elements zigzag-encoded, and a pass over the
\* range of get_packed_<type>() yields xs in order
C19_PackedRoundTrip ==
    arg.kind = "packed" =>
        /\ pc # "failed"
        /\ pc # "add" => mem = LengthDelimitedHeader(arg.tag)
                                 \o write_varint(BitVec(Len(PackedPayload(arg.T, arg.elems))))
                                 \o PackedPayload(arg.T, arg.elems)
        /\ pc = "get" => /\ rd_last.out = "true"
                         /\ rd.m_tag = arg.tag
                         /\ rd.m_wire_type = pbf_wire_type_length_delimited
        /\ pc = "done" => /\ rd_last.out = "ok"
                          /\ got = arg.elems
                          /\ rd.m_data = rd.m_end
                          /\ rd.m_end = Len(mem)

\* add_packed_sint32(7, [-17, 22]) gave the payload 33, 44 of length 2 and the
\* range gave -17, 22
C19_Witness ==
    /\ arg.kind = "packed"
    /\ pc = "done"
    /\ arg.T = "sint32"
    /\ arg.tag = BitVec(7)
    /\ arg.elems = <<(0..31) \ {4}, BitVec(22)>>
    /\ mem = <<58, 2, 33, 44>>
    /\ got = arg.elems

\* C20: add_packed_<fixed type>(tag, first, last) over N >= 1 elements of width W
\* given by forward iterators grows the buffer by header_size(tag) +
\* varint_size(N * W) + N * W bytes, the length varint carrying N * W, and opens
\* no submessage: the writer's members are as its construction left them
C20_PackedFixedGrowth ==
    ( /\ arg.kind = "packed"
      /\ arg.T \in FixedTypes
      /\ arg.forward
      /\ pc # "add" )
    => LET N == Len(arg.elems)
           W == type_size(arg.T)
           header_size == Len(LengthDelimitedHeader(arg.tag))
           length == decode_varint(header_size, Len(mem))
       IN  /\ wr_last.out = "ok"
           /\ Len(mem) = header_size + Len(write_varint(BitVec(N * W))) + N * W
           /\ length.out = "ok"
           /\ length.val = BitVec(N * W)
           /\ length.pos = Len(mem) - N * W
           /\ writers = <<pbf_writer(SubSeq(buffer, 1, Len(buffer) - Len(mem)))>>

\* 16 fixed64 elements behind a non-empty buffer: a length varint of two bytes
C20_Witness ==
    /\ arg.kind = "packed"
    /\ arg.T = "fixed64"
    /\ arg.forward
    /\ pc = "done"
    /\ Len(arg.elems) = LongCount
    /\ arg.tag = BitVec(16)
    /\ Len(buffer) = 2 + 2 + 2 + 128
    /\ SubSeq(mem, 1, 4) = <<130, 1, 128, 1>>
    /\ writers[1].m_rollback_pos = 0

----------------------------------------------------------------------------
\* Call runs: a top-level writer on a string, a child that may be constructed on
\* it first, and one field-writing call with any tag, in range or not, on one of
\* the two: add_<type>(tag, v), add_bytes(tag, data), add_packed_<type>(tag,
\* first, last) over no element or one, or the construction of a child writer.
\* arg is the call.  Without assertions a call with a tag out of range goes on.

\* tags 0, 1, 18999, 19000, 19999, 20000, 2^29 - 1, 2^29 and 2^32 - 1
CallTags ==
    { Zero64, BitVec(1), BitVec(18999), BitVec(19000), BitVec(19999), BitVec(20000),
      0..28, {29}, 0..31 }

CallArgs ==
    { [kind |-> "scalar", T |-> T, tag |-> t, value |-> BitVec(1), elems |-> <<>>,
       forward |-> FALSE, size |-> 0] : T \in ScalarTypes, t \in CallTags }
      \cup
    { [kind |-> "bytes", T |-> "bytes", tag |-> t, value |-> Zero64, elems |-> <<97, 98>>,
       forward |-> FALSE, size |-> 0] : t \in CallTags }
      \cup
    UNION { { [kind |-> "packed", T |-> T, tag |-> t, value |-> Zero64, elems |-> xs,
                forward |-> f, size |-> 0] :
                t \in CallTags, xs \in {<<>>, <<BitVec(1)>>}, f \in BOOLEAN } :
            T \in ScalarTypes }
      \cup
    { [kind |-> "child", T |-> "message", tag |-> t, value |-> Zero64, elems |-> <<>>,
       forward |-> FALSE, size |-> n] : t \in CallTags, n \in {0, KnownSize} }

CallInit ==
    /\ assertions \in BOOLEAN
    /\ arg \in CallArgs
    /\ buffer \in PriorBuffers
    /\ writers = <<pbf_writer(buffer)>>
    /\ wr_last = NoWrite
    /\ pc = "start"
    /\ msg = <<>>
    /\ got = <<>>
    /\ ReaderIdle

CallFrame == UNCHANGED <<assertions, mem, rd, rd_last, msg, got, arg>>

\* the call state a call ends in becomes the state of the run
CallWrote(op, w, s) ==
    /\ buffer' = s.buf
    /\ writers' = s.ws
    /\ wr_last' = [op |-> op, w |-> w, out |-> s.out, n |-> Len(s.buf) - Len(buffer),
                   calls |-> wr_last.calls + 1]

\* pbf_writer child(parent, 1)
CallOpen ==
    /\ pc = "start"
    /\ Len(writers) = 1
    /\ CallWrote("open", 1, pbf_writer_sub(Start, 1, BitVec(1), 0))
    /\ pc' = "start"
    /\ CallFrame

\* the call arg on writer w
call(s, w, a) ==
    CASE a.kind = "scalar" -> add(s, w, a.T, a.tag, a.value)
      [] a.kind = "bytes" -> add(s, w, a.T, a.tag, a.elems)
      [] a.kind = "packed" -> add_packed(s, w, a.T, a.tag, a.elems, a.forward)
      [] a.kind = "child" -> pbf_writer_sub(s, w, a.tag, a.size)

CallMake ==
    /\ pc = "start"
    /\ \E w \in Usable : CallWrote(arg.kind, w, call(Start, w, arg))
    /\ pc' = "called"
    /\ CallFrame

CallNext == CallOpen \/ CallMake

CallSpec == CallInit /\ [][CallNext]_vars

\* C21: add_packed_<type>(tag, first, last) with first == last, for fixed-width
\* and varint element types alike, returns without an assertion and leaves the
\* buffer and every member of every writer as they were
C21_EmptyPackedNoOp ==
    [][ (wr_last'.op = "packed" /\ arg.elems = <<>>)
        => /\ wr_last'.out = "ok"
           /\ buffer' = buffer
           /\ writers' = writers ]_vars

\* an empty range of fixed32 given by forward iterators to a child writer behind
\* a non-empty buffer
C21_Witness ==
    /\ pc = "called"
    /\ wr_last.op = "packed"
    /\ wr_last.w = 2
    /\ wr_last.out = "ok"
    /\ arg.elems = <<>>
    /\ arg.T = "fixed32"
    /\ arg.forward
    /\ arg.tag = BitVec(1)
    /\ buffer = <<8, 1, 10>> \o [i \in 1..reserve_bytes |-> 0]
    /\ writers[2].m_rollback_pos = 0

\* the construction of a child of unknown size with a tag in range on writer w,
\* which has no open child
OpensUnknownSize(w) ==
    /\ wr_last'.op = "child"
    /\ wr_last'.w = w
    /\ wr_last'.out = "ok"
    /\ arg.size = 0
    /\ tag_in_range(arg.tag)
    /\ writers[w].m_pos = 0

\* the buffer and the parent w after a child of unknown size was opened with a
\* placeholder of n bytes
OpenedWithPlaceholder(w, n) ==
    /\ buffer' = buffer \o SubmessageHeader(arg.tag) \o [i \in 1..n |-> 0]
    /\ writers'[w].m_rollback_pos = Len(buffer)
    /\ writers'[w].m_pos
          = writers'[w].m_rollback_pos + Len(SubmessageHeader(arg.tag)) + n

\* C22 as amended: opening a submessage of unknown size appends the header
\* varint (tag << 3) | 2 followed by exactly 5 zero bytes, so that data_pos is
\* rollback_pos + header_size + 5 while the child is open
C22_PlaceholderFiveBytes ==
    [][ \A w \in 1..Len(writers) : OpensUnknownSize(w) => OpenedWithPlaceholder(w, 5) ]_vars

\* C22 as stated: the header is followed by exactly 10 zero bytes and data_pos is
\* rollback_pos + header_size + 10
C22_PlaceholderTenBytes ==
    [][ \A w \in 1..Len(writers) : OpensUnknownSize(w) => OpenedWithPlaceholder(w, 10) ]_vars

\* a child with the largest tag opened behind a non-empty buffer
C22_Witness ==
    /\ pc = "called"
    /\ wr_last.op = "child"
    /\ wr_last.out = "ok"
    /\ arg.size = 0
    /\ arg.tag = 0..28
    /\ buffer = <<8, 1, 250, 255, 255, 255, 15, 0, 0, 0, 0, 0>>
    /\ Len(writers) = 2
    /\ writers[1].m_rollback_pos = 2
    /\ writers[1].m_pos = 12

----------------------------------------------------------------------------
\* Reader claims on the typed reads

\* get_bool() is called on a current varint field whose payload varint ends
\* within the range
ReadsBool ==
    /\ HasCurrent
    /\ rd.m_wire_type = pbf_wire_type_varint
    /\ rd_last'.op = "get"
    /\ rd_last'.T = "bool"
    /\ HeaderAt(rd).out = "ok"

\* C23: get_bool() on a varint field accepts a payload varint of any length,
\* returns false iff the first payload byte is zero, and leaves the cursor behind
\* the whole varint
C23_BoolDecoding ==
    [][ ReadsBool
        => /\ rd_last'.out = "ok"
           /\ rd_last'.val = BitVec(IF mem[rd.m_data + 1] # 0 THEN 1 ELSE 0)
           /\ rd'.m_data = HeaderAt(rd).pos ]_vars

\* the same for a payload varint of one byte
BoolDecodingOneByte ==
    [][ (ReadsBool /\ HeaderAt(rd).pos = rd.m_data + 1)
        => /\ rd_last'.out = "ok"
           /\ rd_last'.val = BitVec(IF mem[rd.m_data + 1] # 0 THEN 1 ELSE 0)
           /\ rd'.m_data = HeaderAt(rd).pos ]_vars

\* the wire type of the logical type the step's typed read asks for
RequestedWireType ==
    IF rd_last'.op = "get_packed" THEN pbf_wire_type_length_delimited
    ELSE type_wire_type(rd_last'.T)

\* C24: with assertions, every typed read, scalar get_<type> and get_packed_<type>
\* alike, that is called while the wire type of the current field differs from
\* that of the requested type fails an assertion and leaves the reader as it was
C24_WireTypeChecked ==
    [][ ( /\ assertions
          /\ HasCurrent
          /\ rd_last'.op \in {"get", "get_view", "get_packed"}
          /\ rd.m_wire_type # RequestedWireType )
        => (rd_last'.out = "assert" /\ rd' = rd) ]_vars

\* the same for the reads that go through get_impl(is_scalar): get_<type> and
\* get_view, get_data, get_message
WireTypeCheckedScalar ==
    [][ ( /\ assertions
          /\ HasCurrent
          /\ rd_last'.op \in {"get", "get_view"}
          /\ rd.m_wire_type # RequestedWireType )
        => (rd_last'.out = "assert" /\ rd' = rd) ]_vars

----------------------------------------------------------------------------
\* Writer claims on single calls

\* the wire type of the field the call arg writes
CallWireType ==
    IF arg.kind = "packed" THEN pbf_wire_type_length_delimited ELSE type_wire_type(arg.T)

\* the header value (tag << 3) | wire_type of the call arg, not truncated
CallHeader == BitOr(Shl(arg.tag, 3), BitVec(CallWireType))

\* the step is a field-writing call on writer w, which has no open child: a
\* scalar add, a length-delimited add, a packed add of at least one element or
\* the construction of a child
WritesField(w) ==
    /\ wr_last'.op \in {"scalar", "bytes", "packed", "child"}
    /\ wr_last'.w = w
    /\ writers[w].m_pos = 0
    /\ arg.kind = "packed" => arg.elems # <<>>

\* C25: with assertions, every field-writing call with tag 0, a tag in
\* 19000..19999 or a tag >= 2^29 fails the assertion with the buffer as it was;
\* with any other tag it goes ahead, and its header (tag << 3) | wire_type fits
\* in 32 bits and is what the call appends first
C25_TagValidationOnWrite ==
    [][ \A w \in 1..Len(writers) :
          (assertions /\ WritesField(w))
          => IF tag_in_range(arg.tag)
             THEN /\ wr_last'.out = "ok"
                  /\ Fits(CallHeader, 32)
                  /\ Len(buffer') >= Len(buffer) + Len(write_varint(CallHeader))
                  /\ SubSeq(buffer', 1, Len(buffer) + Len(write_varint(CallHeader)))
                        = buffer \o write_varint(CallHeader)
             ELSE /\ wr_last'.out = "assert"
                  /\ buffer' = buffer ]_vars

\* add_packed_sint32(19000, first, last) over one element on a child writer
\* failed the assertion
C25_Witness ==
    /\ assertions
    /\ pc = "called"
    /\ wr_last.op = "packed"
    /\ wr_last.w = 2
    /\ wr_last.out = "assert"
    /\ arg.T = "sint32"
    /\ arg.elems # <<>>
    /\ arg.tag = BitVec(19000)
    /\ buffer = <<8, 1, 10>> \o [i \in 1..reserve_bytes |-> 0]

\* a call with the largest tag went ahead: a header of five bytes
TagValidationLargestTag ==
    /\ assertions
    /\ pc = "called"
    /\ wr_last.op = "scalar"
    /\ wr_last.out = "ok"
    /\ arg.T = "fixed32"
    /\ arg.tag = 0..28
    /\ buffer = <<8, 1, 253, 255, 255, 255, 15, 1, 0, 0, 0>>

\* C26: the construction of a child with declared size n > 0 appends the header
\* and varint(n) at its natural size and nothing else; destroying that child
\* leaves the buffer byte for byte as it was, whatever the child wrote; and with
\* assertions rollback() on that child fails an assertion, the buffer unchanged
C26_KnownSizeOpenClose ==
    [][ /\ \A w \in 1..Len(writers) :
             ( /\ Calls("open", w)
               /\ wr_last'.out = "ok"
               /\ writers'[Len(writers')].size > 0 )
             => LET c == writers'[Len(writers')]
                IN  buffer' = buffer \o SubmessageHeader(c.tag) \o write_varint(BitVec(c.size))
        /\ \A c \in Subs :
             /\ ( /\ Calls("destroy", c)
                  /\ writers[c].size > 0
                  /\ writers[c].m_data )
                => (wr_last'.out = "ok" /\ buffer' = buffer)
             /\ ( /\ assertions
                  /\ Calls("rollback", c)
                  /\ writers[c].size > 0 )
                => (wr_last'.out = "assert" /\ buffer' = buffer) ]_vars

\* a child of declared size was destroyed after it wrote more bytes than declared
C26_Witness ==
    /\ wr_last.op = "destroy"
    /\ wr_last.out = "ok"
    /\ wr_last.n > 128
    /\ wr_last.w = 2
    /\ writers[2].size = KnownSize
    /\ writers[2].before = <<8, 1>>
    /\ writers[2].after = <<8, 1, 10, KnownSize>>
    /\ Len(buffer) = 4 + wr_last.n

\* rollback() on a child of declared size failed the assertion
KnownSizeRollbackRejected ==
    /\ assertions
    /\ wr_last.op = "rollback"
    /\ wr_last.out = "assert"
    /\ wr_last.w = 2
    /\ writers[2].size = KnownSize
    /\ buffer = <<8, 1, 10, KnownSize>>

\* the bytes the buffer holds below position n are after the step what they
\* were before it
KeepsBelow(n) ==
    \A i \in 1..n : i <= Len(buffer) => (i <= Len(buffer') /\ buffer'[i] = buffer[i])

\* C28: no call of a run changes the bytes the string held when the top-level
\* writer was constructed on it, and the close of a child, by its destructor or
\* by rollback(), changes no byte below the position at which the header of that
\* child starts
C28_WriterOnlyAppends ==
    [][ /\ Len(buffer') >= Len(writers[1].before)
        /\ SubSeq(buffer', 1, Len(writers[1].before)) = writers[1].before
        /\ \A c \in Subs :
             (Calls("destroy", c) \/ Calls("rollback", c))
             => KeepsBelow(Len(writers[c].before)) ]_vars

\* a child of a child behind a non-empty string was committed
C28_Witness ==
    /\ wr_last.op = "destroy"
    /\ wr_last.out = "ok"
    /\ wr_last.w = 3
    /\ writers[3].m_parent_writer = 2
    /\ writers[3].m_data
    /\ writers[1].before = <<8, 1>>
    /\ Len(writers[3].before) = 2 + 1 + reserve_bytes
    /\ Len(buffer) > Len(writers[3].before) + 128
    /\ SubSeq(buffer, 1, 2) = <<8, 1>>

\* a child behind a non-empty string was rolled back
WriterOnlyAppendsRollback ==
    /\ wr_last.op = "rollback"
    /\ wr_last.out = "ok"
    /\ writers[1].before = <<8, 1>>
    /\ buffer = <<8, 1>>

----------------------------------------------------------------------------
\* Encoding runs: a round-trip run (add, next, get) of one fixed-width or uint64
\* field, followed by one more next()

\* 0x01020304 and 0x0102030405060708: every byte differs from the others
Bytes32 == BitVec(16909060)

Bytes64 == BitOr(Shl(BitVec(16909060), 32), BitVec(84281096))

FixedValues(T) ==
    IF type_size(T) = 4 THEN { Zero64, BitVec(12345678), Bytes32, {31}, 0..31 }
    ELSE { Zero64, BitVec(12345678), Bytes64, {63}, Ones64 }

\* 0, and for every k the values 2^k and 2^(k+1) - 1: the smallest and the
\* largest value of every bit length
VarintValues == { Zero64 } \cup { {k} : k \in BitIdx } \cup { 0..k : k \in BitIdx }

EncodingArgs ==
    UNION { { [kind |-> "scalar", T |-> T, tag |-> t, value |-> v, elems |-> <<>>,
                forward |-> FALSE] :
                t \in {BitVec(1), BitVec(16)}, v \in FixedValues(T) } : T \in FixedTypes }
      \cup
    { [kind |-> "scalar", T |-> "uint64", tag |-> BitVec(1), value |-> v, elems |-> <<>>,
       forward |-> FALSE] : v \in VarintValues }

EncodingInit ==
    /\ assertions \in BOOLEAN
    /\ arg \in EncodingArgs
    /\ buffer \in PriorBuffers
    /\ writers = <<pbf_writer(buffer)>>
    /\ wr_last = NoWrite
    /\ msg = <<>>
    /\ got = <<>>
    /\ pc = "add"
    /\ ReaderIdle

\* the next() after the field was read
RoundEnd ==
    /\ pc = "done"
    /\ LET res == next(rd)
       IN  /\ rd' = res.r
           /\ rd_last' = Called("next", "", res)
           /\ pc' = IF res.out = "false" THEN "end" ELSE "failed"
    /\ UNCHANGED <<mem, buffer, writers, wr_last, got>>
    /\ RoundFrame

EncodingNext == RoundAdd \/ RoundNext \/ RoundGet \/ RoundEnd

EncodingSpec == EncodingInit /\ [][EncodingNext]_vars

\* the bytes 0..size-1 of a value, least significant first
LittleEndian(value, size) == [i \in 1..size |-> ByteOf(value, i - 1)]

\* C27: add_fixed32(1, 12345678) appends the five bytes 0D 4E 61 BC 00; every
\* add_fixed32, add_sfixed32, add_fixed64, add_sfixed64 appends the header and
\* then the 4 or 8 bytes of the value, least significant first; the reader over
\* those bytes gives the tag, then the value, then false from next()
C27_FixedLittleEndian ==
    arg.T \in FixedTypes =>
        /\ pc # "failed"
        /\ pc # "add" =>
              /\ wr_last.out = "ok"
              /\ mem = write_varint(BitOr(Shl(arg.tag, 3), BitVec(type_wire_type(arg.T))))
                          \o LittleEndian(arg.value, type_size(arg.T))
              /\ (arg.T = "fixed32" /\ arg.tag = BitVec(1) /\ arg.value = BitVec(12345678))
                    => mem = <<13, 78, 97, 188, 0>>
        /\ pc = "get" => (rd_last.out = "true" /\ rd.m_tag = arg.tag)
        /\ pc \in {"done", "end"} => got = <<arg.value>>
        /\ pc = "end" => (rd_last.op = "next" /\ rd_last.out = "false")

\* add_fixed32(1, 12345678) on an empty string, read back to the end
C27_Witness ==
    /\ pc = "end"
    /\ arg.T = "fixed32"
    /\ arg.tag = BitVec(1)
    /\ arg.value = BitVec(12345678)
    /\ buffer = <<13, 78, 97, 188, 0>>
    /\ got = <<BitVec(12345678)>>
    /\ rd_last.out = "false"

\* add_fixed64(16, 0x0102030405060708) read back to the end
FixedLittleEndianEightBytes ==
    /\ pc = "end"
    /\ arg.T = "fixed64"
    /\ arg.tag = BitVec(16)
    /\ mem = <<129, 1, 8, 7, 6, 5, 4, 3, 2, 1>>
    /\ got = <<Bytes64>>

\* the number of bits of a value: the position of its highest one bit, plus one
BitLen(v) == IF v = {} THEN 0 ELSE (CHOOSE i \in v : \A j \in v : j <= i) + 1

\* C29: for every uint64 value v the varint written for v decodes to v, the
\* cursor then right behind its bytes; the varint of 0 is the one byte 00 and
\* that of v >= 1 is ceil(bitlen(v) / 7) bytes long, at most 10
C29_VarintRoundTrip ==
    arg.T = "uint64" =>
        /\ pc # "failed"
        /\ pc # "add" =>
              /\ wr_last.out = "ok"
              /\ mem[1] = 8
              /\ Len(mem) - 1 = (IF arg.value = Zero64 THEN 1 ELSE (BitLen(arg.value) + 6) \div 7)
              /\ Len(mem) - 1 <= 10
              /\ arg.value = Zero64 => mem = <<8, 0>>
              /\ decode_varint(1, Len(mem)) = [out |-> "ok", val |-> arg.value, pos |-> Len(mem)]
        /\ pc \in {"done", "end"} => (got = <<arg.value>> /\ rd.m_data = Len(mem))
        /\ pc = "done" => rd_last.out = "ok"

\* the largest uint64 written and read back: ten bytes
C29_Witness ==
    /\ arg.T = "uint64"
    /\ pc = "done"
    /\ arg.value = Ones64
    /\ mem = <<8, 255, 255, 255, 255, 255, 255, 255, 255, 255, 1>>
    /\ got = <<Ones64>>
    /\ rd.m_data = 11

\* 0 written and read back: one byte
VarintRoundTripZero ==
    /\ arg.T = "uint64"
    /\ pc = "done"
    /\ arg.value = Zero64
    /\ mem = <<8, 0>>
    /\ got = <<Zero64>>

----------------------------------------------------------------------------
\* Long-varint runs: a reader over a block that holds, at its start or behind the
\* header of a varint or a length-delimited field, up to MaxRun bytes with the
\* high bit set, followed by a byte with the high bit clear or by nothing

MaxRun == 11

LongHeads == { <<>>, <<8>>, <<10>> }

LongBlocks ==
    { h \o [i \in 1..k |-> 255] \o t :
        h \in LongHeads, k \in 0..MaxRun, t \in { <<>>, <<1>> } }

LongInit ==
    /\ assertions \in BOOLEAN
    /\ mem \in LongBlocks
    /\ rd = pbf_reader(Len(mem))
    /\ rd_last = NoCall
    /\ WriterIdle
    /\ TruncIdle

LongSpec == LongInit /\ [][ReaderNext]_vars

\* the call of the step decodes a varint at the cursor before anything else:
\* next() away from the end, a varint or svarint read, a length-delimited read,
\* skip() of a varint or length-delimited field, none of them stopped by an
\* assertion before
DecodesAtCursor ==
    LET current == ~assertions \/ ~IsZero(rd.m_tag)
        matches(wt) == ~assertions \/ rd.m_wire_type = wt
    IN  \/ rd_last'.op = "next" /\ rd.m_data # rd.m_end
        \/ /\ rd_last'.op = "get"
           /\ rd_last'.T \in VarintTypes \cup SvarintTypes
           /\ current
           /\ matches(pbf_wire_type_varint)
        \/ /\ rd_last'.op = "get_view"
           /\ current
           /\ matches(pbf_wire_type_length_delimited)
        \/ rd_last'.op = "get_packed" /\ current
        \/ /\ rd_last'.op = "skip"
           /\ current
           /\ rd.m_wire_type \in {pbf_wire_type_varint, pbf_wire_type_length_delimited}

\* the number of bytes with the high bit set from the cursor of r on, up to the end
ContinuationRun(r) ==
    CHOOSE n \in 0..(r.m_end - r.m_data) :
        /\ \A i \in 1..n : mem[r.m_data + i] >= 128
        /\ (r.m_data + n = r.m_end \/ mem[r.m_data + n + 1] < 128)

\* C30: a varint decode fails with varint_too_long when the ten bytes at the
\* cursor all have the high bit set, and with end_of_buffer when the end comes
\* before a byte with the high bit clear (also when no byte is left); either
\* way the cursor, and the reader, is left as it was before the call
C30_VarintDecodeFailures ==
    [][ DecodesAtCursor
        => IF ContinuationRun(rd) >= max_varint_length
           THEN rd_last'.out = "varint_too_long" /\ rd' = rd
           ELSE IF rd.m_data + ContinuationRun(rd) = rd.m_end
           THEN rd_last'.out = "end_of_buffer" /\ rd' = rd
           ELSE rd_last'.out # "varint_too_long" ]_vars

\* get_view() on a length of ten bytes with the high bit set failed with
\* varint_too_long, the cursor still behind the header
C30_Witness ==
    /\ rd_last.op = "get_view"
    /\ rd_last.out = "varint_too_long"
    /\ mem = <<10>> \o [i \in 1..10 |-> 255] \o <<1>>
    /\ rd.m_data = 1
    /\ rd.m_tag = BitVec(1)

\* a read at the end of the block failed with end_of_buffer
VarintDecodeNoInput ==
    /\ rd_last.op = "get"
    /\ rd_last.T = "uint64"
    /\ rd_last.out = "end_of_buffer"
    /\ mem = <<8>>
    /\ rd.m_data = 1

\* a varint of ten bytes, nine of them with the high bit set, was decoded
VarintDecodeTenBytes ==
    /\ rd_last.op = "get"
    /\ rd_last.T = "uint64"
    /\ rd_last.out = "ok"
    /\ mem = <<8>> \o [i \in 1..9 |-> 255] \o <<1>>
    /\ rd_last.val = Ones64
    /\ rd.m_data = 11

----------------------------------------------------------------------------
\* Nested runs: a top-level writer and submessage writers of unknown size whose
\* lifetimes nest, as the scopes of a C++ function nest them.  Calls go to the
\* innermost writer that can append, a writer is destroyed after every writer
\* constructed later, and when only the top-level writer is left a reader is
\* constructed over the bytes it appended and driven by
\*     while (next()) { skip(); }
\* msg[w] holds the fields the calls put into the message of writer w, got the
\* fields the reader has visited.

\* the tag of the submessages, with a header of two bytes
NestTags == { BitVec(16) }

NestInputs ==
    { <<"sint64", Ones64>>,
      <<"fixed32", BitVec(1)>>,
      <<"bytes", [i \in 1..BigLen |-> 7]>> }

\* a field as the loop sees it
Field(tag, wire_type) == [tag |-> tag, wire_type |-> wire_type]

NestInit ==
    /\ assertions \in BOOLEAN
    /\ buffer \in PriorBuffers
    /\ writers = <<pbf_writer(buffer)>>
    /\ wr_last = NoWrite
    /\ ReaderIdle
    /\ msg = << <<>> >>
    /\ got = <<>>
    /\ pc = "write"
    /\ arg = NoArg

NestFrame == UNCHANGED <<assertions, mem, rd, rd_last, got, pc, arg>>

NestCalls == 6

NestRunning == pc = "write" /\ wr_last.out = "ok" /\ wr_last.calls < NestCalls

\* the largest of a non-empty set of writers
Last(S) == CHOOSE w \in S : \A v \in S : v <= w

\* the innermost writer that can append
Innermost == Last(Usable)

\* the call state a call ends in becomes the state of the run, m the fields
NestWrote(op, w, n, s, m) ==
    /\ ~s.misuse
    /\ buffer' = s.buf
    /\ writers' = s.ws
    /\ wr_last' = [op |-> op, w |-> w, out |-> s.out, n |-> n, calls |-> wr_last.calls + 1]
    /\ msg' = m
    /\ NestFrame

NestOpen ==
    /\ NestRunning
    /\ Len(writers) < MaxWriters
    /\ \E tag \in NestTags :
          NestWrote("open", Innermost, 1, pbf_writer_sub(Start, Innermost, tag, 0),
                    Append(msg, <<>>))

NestAdd ==
    /\ NestRunning
    /\ \E tag \in AddTags, in \in NestInputs :
          NestWrote("add", Innermost, 1, add(Start, Innermost, in[1], tag, in[2]),
                    [msg EXCEPT ![Innermost] = Append(@, Field(tag, type_wire_type(in[1])))])

NestRollback ==
    /\ NestRunning
    /\ writers[Innermost].m_parent_writer # 0
    /\ NestWrote("rollback", Innermost, 0, rollback(Start, Innermost),
                 [msg EXCEPT ![Innermost] = <<>>])

\* a submessage is a field of its parent's message when it has fields itself
NestDestroy ==
    /\ NestRunning
    /\ Last(Alive) # 1
    /\ LET c == Last(Alive)
           parent == writers[c].m_parent_writer
       IN  NestWrote("destroy", c, Len(buffer) - Len(writers[c].after),
                     destructor(Start, c),
                     IF msg[c] = <<>> THEN msg
                     ELSE [msg EXCEPT ![parent] =
                               Append(@, Field(writers[c].tag, pbf_wire_type_length_delimited))])

\* pbf_reader(data, length) over the bytes the top-level writer appended
NestRead ==
    /\ pc = "write"
    /\ wr_last.out = "ok"
    /\ Alive = {1}
    /\ mem' = SubSeq(buffer, Len(writers[1].before) + 1, Len(buffer))
    /\ rd' = pbf_reader(Len(mem'))
    /\ rd_last' = NoCall
    /\ pc' = "next"
    /\ UNCHANGED <<assertions, buffer, writers, wr_last, msg, got, arg>>

NestSkip ==
    /\ pc = "read"
    /\ LET res == skip(rd)
       IN  /\ rd' = res.r
           /\ rd_last' = Called("skip", "", res)
           /\ pc' = IF res.out = "ok" THEN "next" ELSE "failed"
    /\ got' = Append(got, Field(rd.m_tag, rd.m_wire_type))
    /\ TruncFrame

NestNext ==
    NestOpen \/ NestAdd \/ NestRollback \/ NestDestroy \/ NestRead \/ LoopNext \/ NestSkip

NestSpec == NestInit /\ [][NestNext]_vars

\* C31: once every child is closed, the loop next() + skip() over the bytes the
\* top-level writer appended visits exactly the top-level fields that were
\* written, in order, without the children that were rolled back or left empty,
\* raises no error and ends with the cursor at the end
C31_WriterOutputParseable ==
    /\ pc # "failed"
    /\ pc \in {"next", "read", "done"} =>
          /\ Len(got) <= Len(msg[1])
          /\ \A i \in 1..Len(got) : got[i] = msg[1][i]
          /\ pc = "read" =>
                /\ Len(got) < Len(msg[1])
                /\ Field(rd.m_tag, rd.m_wire_type) = msg[1][Len(got) + 1]
    /\ pc = "done" => (got = msg[1] /\ rd.m_data = rd.m_end)

\* a message read to its end whose one field is a submessage that holds a
\* submessage of more than BigLen bytes
C31_Witness ==
    /\ pc = "done"
    /\ Len(writers) = 3
    /\ writers[3].m_parent_writer = 2
    /\ writers[3].m_data
    /\ Len(got) = 1
    /\ got[1].wire_type = pbf_wire_type_length_delimited
    /\ Len(mem) > BigLen

\* the writers of a run, alive or destroyed, that were constructed on a parent
Nested == {c \in 1..Len(writers) : writers[c].m_parent_writer # 0}

\* C32: with a child c open on the top-level writer and a grandchild g open on
\* c, both of unknown size, destroying g after it wrote n >= 1 bytes writes n as
\* g's length and leaves the members of the top-level writer and the bytes up to
\* its m_pos as they were; destroying c next writes as c's length the final
\* size of its payload: its own fields, g's header, g's length at its natural
\* size and g's n bytes, without the rest of g's placeholder
C32_NestedCommitLengths ==
    [][ \A c, g \in Nested :
          ( /\ writers[c].m_parent_writer = 1
            /\ writers[g].m_parent_writer = c
            /\ writers[c].m_data /\ writers[g].m_data
            /\ writers[c].alive )
          => LET own == Len(writers[g].before) - Len(writers[c].after)
                 n == Len(buffer) - Len(writers[g].after)
                 inner(k) == SubmessageHeader(writers[g].tag) \o write_varint(BitVec(k))
             IN  /\ ( Calls("destroy", g) /\ n >= 1 )
                    => /\ buffer' = writers[g].before \o inner(n)
                                       \o SubSeq(buffer, Len(writers[g].after) + 1, Len(buffer))
                       /\ writers'[1] = writers[1]
                       /\ writers[1].m_rollback_pos = Len(writers[c].before)
                       /\ writers[1].m_pos = Len(writers[c].after)
                       /\ writers[1].m_pos <= Len(buffer')
                 /\ ( /\ ~writers[g].alive
                      /\ wr_last.op = "destroy" /\ wr_last.w = g /\ wr_last.n >= 1
                      /\ Calls("destroy", c) )
                    => buffer' = writers[c].before
                                    \o SubmessageHeader(writers[c].tag)
                                    \o write_varint(BitVec(own + Len(inner(wr_last.n)) + wr_last.n))
                                    \o SubSeq(buffer, Len(writers[c].after) + 1, Len(buffer))
      ]_vars

\* a child with a field of its own and a grandchild of BigLen + 2 bytes, both
\* closed
C32_Witness ==
    /\ pc = "write"
    /\ wr_last.op = "destroy"
    /\ wr_last.w = 2
    /\ wr_last.out = "ok"
    /\ Len(writers) = 3
    /\ writers[3].m_parent_writer = 2
    /\ writers[3].m_data /\ writers[2].m_data
    /\ Len(writers[3].before) > Len(writers[2].after)
    /\ Len(buffer) > Len(writers[3].before) + BigLen

\* C33: a child c of the top-level writer and a grandchild g of c, destroyed g
\* first and c next without either message having been given a field, leave
\* the buffer as it was before c was constructed and the open-child flag of
\* the top-level writer and of c clear
C33_RollbackCascades ==
    \A c, g \in Nested :
       ( /\ writers[c].m_parent_writer = 1
         /\ writers[g].m_parent_writer = c
         /\ writers[c].m_data /\ writers[g].m_data
         /\ msg[c] = <<>> /\ msg[g] = <<>>
         /\ ~writers[g].alive
         /\ wr_last.op = "destroy" /\ wr_last.w = c )
       => /\ wr_last.out = "ok"
          /\ buffer = writers[c].before
          /\ writers[1].m_pos = 0
          /\ writers[c].m_pos = 0

\* the cascade behind the bytes 08 01: c's header and placeholder, then g's,
\* all cut away again
C33_Witness ==
    /\ wr_last.op = "destroy"
    /\ wr_last.w = 2
    /\ wr_last.calls = 4
    /\ Len(writers) = 3
    /\ writers[3].m_parent_writer = 2
    /\ writers[3].m_data /\ writers[2].m_data
    /\ ~writers[3].alive /\ ~writers[2].alive
    /\ writers[2].before = <<8, 1>>
    /\ Len(writers[3].after) = 2 + 2 * (2 + reserve_bytes)
    /\ buffer = <<8, 1>>

----------------------------------------------------------------------------
\* Message runs: the fields msg are written through a child of unknown size of
\* a top-level writer, and the same fields are written into a string of their
\* own, mem, which a second top-level writer on the same prior content is then
\* given with add_message(); after that call mem holds the string of the
\* second writer.

MessageInit ==
    /\ assertions \in BOOLEAN
    /\ buffer \in PriorBuffers
    /\ writers = <<pbf_writer(buffer)>>
    /\ wr_last = NoWrite
    /\ msg \in ItemLists(MaxItems) \ {<<>>}
    /\ got = <<>>
    /\ pc = "child"
    /\ arg = NoArg
    /\ ReaderIdle

\* pbf_writer child(parent, tag), and the string of their own for the fields
MessageOpen ==
    /\ pc = "child"
    /\ \E tag \in Tags : SizeCalled("open", 1, pbf_writer_sub(Start, 1, tag, 0))
    /\ mem' = PayloadOf(msg)
    /\ got' = msg
    /\ msg' = msg
    /\ pc' = "add"
    /\ SizeFrame

\* pbf_writer second(data); second.add_message(tag, mem), data the prior content
MessageAdd ==
    /\ pc = "closed"
    /\ wr_last.out = "ok"
    /\ LET data == writers[1].before
           s == add([buf |-> data, ws |-> <<pbf_writer(data)>>, out |-> "ok", misuse |-> FALSE],
                    1, "message", writers[2].tag, mem)
       IN  /\ mem' = s.buf
           /\ pc' = IF s.out = "ok" THEN "added" ELSE "failed"
    /\ UNCHANGED <<buffer, writers, wr_last, msg, got>>
    /\ SizeFrame

MessageNext == MessageOpen \/ SizeAdd \/ SizeClose \/ MessageAdd

MessageSpec == MessageInit /\ [][MessageNext]_vars

\* C34: a non-empty sequence of fields written through a child writer of
\* unknown size with tag t leaves in the parent's buffer the bytes that
\* add_message(t, b) leaves, b a separate buffer the same fields were written
\* into through a top-level writer of its own
C34_ChildAgreesWithAddMessage ==
    /\ pc # "failed"
    /\ pc = "added" => buffer = mem

\* two fields of more than BigLen bytes together under tag 16, behind 08 01
C34_Witness ==
    /\ pc = "added"
    /\ buffer = mem
    /\ Len(got) = 2
    /\ Len(PayloadOf(got)) > BigLen
    /\ writers[2].tag = BitVec(16)
    /\ writers[2].size = 0
    /\ writers[1].before = <<8, 1>>
    /\ Len(buffer) = 2 + 2 + 2 + Len(PayloadOf(got))

----------------------------------------------------------------------------
\* Skipping runs: a reader over any block of bytes, driven to its end by
\*     while (next()) { skip(); }     or     while (next(tag)) { skip(); }
\* arg says which of the two loops runs, and with which tag.

MaxBytes == 4

\* tag 0 with wire type 0 and 1, tag 1 as varint, length-delimited and with the
\* unknown wire type 3, and a continuation byte; 1 is a value and a length too
LoopBytes == {0, 1, 8, 10, 11, 128}

RECURSIVE ByteBlocks(_)
\* the blocks of up to n of these bytes
ByteBlocks(n) ==
    IF n = 0 THEN {<<>>}
    ELSE LET B == ByteBlocks(n - 1) IN B \cup {Append(b, c) : b \in B, c \in LoopBytes}

SkipLoops == { [loop |-> "next", tag |-> Zero64], [loop |-> "next_tag", tag |-> BitVec(1)] }

SkipLoopInit ==
    /\ assertions \in BOOLEAN
    /\ ReaderIdle
    /\ msg = <<>>
    /\ got = <<>>
    /\ pc = "construct"
    /\ arg = [loop |-> "", tag |-> Zero64]
    /\ WriterIdle

\* pbf_reader(data, length) over a block of bytes, in front of one of the loops
SkipLoopConstruct ==
    /\ pc = "construct"
    /\ mem' \in ByteBlocks(MaxBytes)
    /\ rd' = pbf_reader(Len(mem'))
    /\ arg' \in SkipLoops
    /\ pc' = "next"
    /\ UNCHANGED <<assertions, rd_last, buffer, writers, wr_last, msg, got>>

\* the condition of the while statement
WhileNext ==
    /\ pc = "next"
    /\ LET res == IF arg.loop = "next" THEN next(rd) ELSE next_tag(rd, arg.tag)
       IN  /\ rd' = res.r
           /\ rd_last' = Called(arg.loop, "", res)
           /\ pc' = CASE res.out = "true" -> "read"
                      [] res.out = "false" -> "done"
                      [] OTHER -> "failed"
    /\ got' = got
    /\ TruncFrame

SkipLoopNext == SkipLoopConstruct \/ WhileNext \/ NestSkip

SkipLoopSpec == SkipLoopInit /\ [][SkipLoopNext]_vars

\* the statement at pc has been executed; every step of SkipLoopNext is one
Advance ==
    /\ pc \in {"construct", "next", "read"}
    /\ pc' \in {"next", "read", "done", "failed"}
    /\ pc' # pc

\* the loop is sequential code: the statement it has reached is executed
SkipLoopLive == SkipLoopSpec /\ WF_pc(Advance)

\* C35: over any block of bytes both loops come to an end; no call moves the
\* cursor backwards and a next() or next(tag) that returns true has moved it
\* forwards by at least one byte; a loop that ends without an error ends with
\* the call returning false at m_data == m_end
C35_ParsingTerminates ==
    /\ <>(pc \in {"done", "failed"})
    /\ [][ /\ rd'.m_data >= rd.m_data
           /\ (pc = "next" /\ rd_last'.out = "true") => rd'.m_data >= rd.m_data + 1 ]_vars
    /\ [](pc = "done" => (rd_last.out = "false" /\ rd.m_data = rd.m_end))

\* next() over 08 01 08 01 has run to its end, two fields skipped
C35_Witness ==
    /\ pc = "done"
    /\ arg.loop = "next"
    /\ mem = <<8, 1, 8, 1>>
    /\ Len(got) = 2
    /\ rd.m_data = 4

----------------------------------------------------------------------------
\* Window runs: a reader over blocks that start with a length-delimited field
\* of tag 1, its length 0, 2, 3 or the two-byte varint 128 1 in front of no
\* byte, of two bytes, and of two bytes and a further field of length 0

WindowLengths == { <<0>>, <<2>>, <<3>>, <<128, 1>> }

WindowTails == { <<>>, <<8, 1>>, <<8, 1, 18, 0>> }

WindowInit ==
    /\ assertions \in BOOLEAN
    /\ mem \in {<<10>> \o l \o t : l \in WindowLengths, t \in WindowTails}
    /\ rd = pbf_reader(Len(mem))
    /\ rd_last = NoCall
    /\ WriterIdle
    /\ TruncIdle

WindowSpec == WindowInit /\ [][ReaderNext]_vars

\* C36: get_view, get_data, get_message or get_packed_<type> that succeeds on a
\* length-delimited field whose length varint decodes to L returns the window
\* of the L bytes behind the length varint, which lies inside [m_data, m_end)
\* of the reader as it was, and leaves m_data at the end of the window; the
\* reader made from the window has no current field; with L = 0 the window is
\* empty
C36_LengthDelimitedWindow ==
    [][ ( /\ HasCurrent
          /\ rd.m_wire_type = pbf_wire_type_length_delimited
          /\ rd_last'.op \in {"get_view", "get_packed"}
          /\ rd_last'.out = "ok" )
        => LET d == decode_varint(rd.m_data, rd.m_end)
               L == SatNat(Trunc(d.val, 32))
               sub == pbf_reader(rd_last'.vlen)
           IN  /\ d.out = "ok"
               /\ rd_last'.vpos = d.pos
               /\ rd_last'.vlen = L
               /\ rd.m_data < rd_last'.vpos
               /\ rd_last'.vpos + rd_last'.vlen <= rd.m_end
               /\ rd'.m_data = rd_last'.vpos + rd_last'.vlen
               /\ rd'.m_end = rd.m_end
               /\ IsZero(sub.m_tag) /\ sub.m_wire_type = pbf_wire_type_unknown
               /\ sub.m_end - sub.m_data = L
               /\ L = 0 => rd_last'.vpos = rd_last'.vpos + rd_last'.vlen ]_vars

\* the empty window of the field 12 00 at the end of 0A 02 08 01 12 00
C36_Witness ==
    /\ mem = <<10, 2, 8, 1, 18, 0>>
    /\ rd_last.op \in {"get_view", "get_packed"}
    /\ rd_last.out = "ok"
    /\ rd_last.vpos = 6
    /\ rd_last.vlen = 0
    /\ rd.m_data = rd.m_end
    /\ assertions

----------------------------------------------------------------------------
\* Copy runs: writer runs in which a submessage writer is copied or moved.  The
\* copy has the members of the original, so its destructor calls the close of
\* the same parent for the same submessage.  msg[w] is the writer that was
\* constructed for the submessage of writer w, got the submessages closed
\* since a child was last opened.

CopyInit ==
    /\ assertions \in BOOLEAN
    /\ buffer \in PriorBuffers
    /\ writers = <<pbf_writer(buffer)>>
    /\ wr_last = NoWrite
    /\ ReaderIdle
    /\ msg = <<1>>
    /\ got = <<>>
    /\ pc = "idle"
    /\ arg = NoArg

CopyWrote(op, w, n, s, m, g) ==
    /\ ~s.misuse
    /\ buffer' = s.buf
    /\ writers' = s.ws
    /\ wr_last' = [op |-> op, w |-> w, out |-> s.out, n |-> n, calls |-> wr_last.calls + 1]
    /\ msg' = m
    /\ got' = g
    /\ UNCHANGED <<assertions, mem, rd, rd_last, pc, arg>>

CopyOpen ==
    /\ WriterRunning
    /\ Len(writers) < MaxWriters
    /\ \E w \in Usable, size \in {0, KnownSize} :
          CopyWrote("open", w, 1, pbf_writer_sub(Start, w, BitVec(1), size),
                    Append(msg, Len(writers) + 1), <<>>)

CopyAdd ==
    /\ WriterRunning
    /\ \E w \in Usable, tag \in AddTags, in \in ScalarInputs :
          CopyWrote("add", w, 1, add(Start, w, in[1], tag, in[2]), msg, got)

\* pbf_writer(const pbf_writer&) and pbf_writer(pbf_writer&&): member by member
CopyConstruct ==
    /\ WriterRunning
    /\ Len(writers) < MaxWriters
    /\ \E w \in Alive :
          /\ writers[w].m_parent_writer # 0
          /\ CopyWrote("copy", w, 0, [Start EXCEPT !.ws = Append(@, writers[w])],
                       Append(msg, msg[w]), got)

CopyDestroy ==
    /\ WriterRunning
    /\ \E w \in Alive :
          /\ Children(w) = {}
          /\ writers[w].m_parent_writer # 0
          /\ CopyWrote("destroy", w, Len(buffer) - Len(writers[w].after),
                       destructor(Start, w), msg, Append(got, msg[w]))

CopyNext == CopyOpen \/ CopyAdd \/ CopyConstruct \/ CopyDestroy

CopySpec == CopyInit /\ [][CopyNext]_vars

\* the submessage of writer c was closed and no child was opened since
ClosedBefore(c) == \E i \in 1..Len(got) : got[i] = msg[c]

\* C37: the destructor of a writer whose submessage was closed before, by the
\* destructor of the writer it was copied from or of a copy of it, with no
\* child opened since, changes neither the buffer nor the parent
C37_CloseIdempotent ==
    [][ \A c \in Subs :
          ( /\ Calls("destroy", c)
            /\ ClosedBefore(c) )
          => /\ wr_last'.out = "ok"
             /\ buffer' = buffer
             /\ writers'[writers[c].m_parent_writer] = writers[writers[c].m_parent_writer]
      ]_vars

\* a child of unknown size with a field of two bytes, committed by the
\* destructor of its copy; then the original was destroyed
C37_Witness ==
    /\ wr_last.op = "destroy"
    /\ wr_last.w = 2
    /\ wr_last.out = "ok"
    /\ Len(writers) = 3
    /\ msg = <<1, 2, 2>>
    /\ got = <<2, 2>>
    /\ writers[2].size = 0
    /\ writers[1].m_pos = 0
    /\ Len(buffer) = Len(writers[2].before) + 2 + 2

====
